---------------------------- MODULE Spec2Model ----------------------------
(***************************************************************************)
(* A model of the Shopify scraper actor (src/src/index.js, src/src/fns.js).*)
(*                                                                         *)
(* Strings are modelled as sequences of tokens: a URL such as              *)
(* https://shop.example/products/a is                                      *)
(*   << "https://shop.example", "/", "products", "/", "a" >>               *)
(* so that the regular expressions and string operations of the source    *)
(* (includes, replace, trim, template concatenation) are computed on the  *)
(* text and not assumed.                                                   *)
(***************************************************************************)
EXTENDS Integers, Sequences, FiniteSets, TLC

(***************************************************************************)
(* Bounds of the model.                                                    *)
(***************************************************************************)
MaxSeeds == 2          \* seeds of a run, in the specification of checkForRobots
MaxParams == 2         \* query parameters of a seed
MaxLeaves == 2         \* <url><loc> entries the shop's sitemaps serve in all
MaxIndexes == 2        \* <sitemap><loc> entries they serve in all
MaxFailures == 1       \* requests the shop's server fails
MaxConcurrency == 2    \* input.maxConcurrency
MaxLimit == 1          \* input.maxRequestsPerCrawl
MaxFilterCalls == 3    \* calls of filter() in one hook invocation
RunMaxSeeds == 1       \* the same for the specification of a whole run
RunMaxLeaves == 1
RunMaxIndexes == 1
RunMaxFailures == 1
MaxVariants == 2       \* variants of a product
MaxRetries == 1        \* input.maxRequestRetries
MaxTargets == 2        \* crawl targets, in the specification of the crawl
MaxImages == 2         \* product.images of a mapped product
MaxOptions == 3        \* product.options of a mapped product
MaxFetchFailures == 6  \* requests the server fails while a tree is traversed: one
                       \* more than the retries of a sitemap request

(***************************************************************************)
(* Program constants.                                                      *)
(***************************************************************************)
SitemapMaxRequestRetries == 5
DefaultMaxRequestRetries == 3


(***************************************************************************)
(* Sequence helpers.                                                       *)
(***************************************************************************)
SeqsUpTo(S, n) == UNION {[1..k -> S] : k \in 0..n}

Range(s) == {s[i] : i \in 1..Len(s)}

\* s contains pat as a contiguous run of tokens (String.prototype.includes,
\* RegExp.prototype.test for a literal pattern)
Includes(s, pat) ==
    \E i \in 0..(Len(s) - Len(pat)) :
        \A k \in 1..Len(pat) : s[i + k] = pat[k]

RECURSIVE DropWhileIn(_, _)
DropWhileIn(s, S) ==
    IF s # <<>> /\ Head(s) \in S THEN DropWhileIn(Tail(s), S) ELSE s

RECURSIVE DropEndWhileIn(_, _)
DropEndWhileIn(s, S) ==
    IF s # <<>> /\ s[Len(s)] \in S
    THEN DropEndWhileIn(SubSeq(s, 1, Len(s) - 1), S)
    ELSE s

(***************************************************************************)
(* Text of URLs.                                                           *)
(***************************************************************************)
Origin == "https://shop.example"
Digits == {"1", "2"}
LineBreaks == {"\n", "\r"}
WhiteSpace == {" ", "\t"} \cup LineBreaks

\* /\/products\//.test(url)
IsProductUrl(url) == Includes(url, <<"/", "products", "/">>)

\* /sitemap_products_\d+/.test(url)
IsProductSitemapUrl(url) ==
    \E d \in Digits : Includes(url, <<"sitemap_products_", d>>)

\* a variant of cleanup that returns the text as it stands in the document
cleanupNothing(url) == url

\* `${url}`.replace(/[\n\r]/g, '').trim()
cleanup(url) ==
    LET noBreaks == SelectSeq(url, LAMBDA t : t \notin LineBreaks)
    IN  DropEndWhileIn(DropWhileIn(noBreaks, WhiteSpace), WhiteSpace)


\* the sitemap documents and product pages of the modelled shop
Root == <<Origin, "/", "sitemap.xml">>
Secret == <<Origin, "/", "secret-unlisted-sitemap.xml">>
Sp1 == <<Origin, "/", "sitemap_products_", "1", ".xml">>
Pages == <<Origin, "/", "sitemap_pages_", "1", ".xml">>
ProdIdx == <<Origin, "/", "products", "/", "sitemap.xml">>
PA == <<Origin, "/", "products", "/", "a">>
PB == <<Origin, "/", "products", "/", "b">>
PC == <<Origin, "/", "products", "/", "c">>
PaddedPA == <<"\n", " ">> \o PA \o <<" ", "\n">>

(***************************************************************************)
(* JavaScript values.  A value a hook may pass to filter() is written as   *)
(* its source text; a number is [nan, n].                                  *)
(***************************************************************************)
JsValues == {"true", "false", "1", "undefined"}
Falsy == {"false", "0", "undefined", "null"}

\* ToBoolean
Truthy(v) == v \notin Falsy

\* a && b
JsAnd(a, b) == IF Truthy(a) THEN b ELSE a

Num(n) == [nan |-> FALSE, n |-> n]
NaN == [nan |-> TRUE, n |-> 0]

\* +maxRequestsPerCrawl: the input field is [given, n]; +undefined is NaN
ToNumber(v) == IF v.given THEN Num(v.n) ELSE NaN

\* a > b, a >= b on numbers: false when either is NaN
JsGt(a, b) == ~a.nan /\ ~b.nan /\ a.n > b.n
JsGe(a, b) == ~a.nan /\ ~b.nan /\ a.n >= b.n

(***************************************************************************)
(* checkForRobots: the robots URL of a seed.                               *)
(*                                                                         *)
(* A seed is the text of input.startUrls[i].url; new URL(url) either       *)
(* throws or yields [origin, pathname, search], search being the list of   *)
(* name/value pairs of URLSearchParams.                                    *)
(***************************************************************************)
ParamNames == {"a", "b"}
Params == ParamNames \X ParamNames

UsableSeeds ==
    {[usable |-> TRUE, origin |-> Origin, pathname |-> "/", search |-> q] :
        q \in SeqsUpTo(Params, MaxParams)}
UnusableSeed == [usable |-> FALSE, text |-> "not a url"]
SeedUrls == UsableSeeds \cup {UnusableSeed}

\* URLSearchParams.prototype.delete(name): removes every pair of that name
SearchParamsDelete(list, name) == SelectSeq(list, LAMBDA p : p[1] # name)

\* URLSearchParams.prototype.forEach(cb) with cb = (key) => delete(key):
\* the callback's first argument is the pair's VALUE; the list is live, the
\* index advances by one pair after every call
RECURSIVE SearchParamsForEachDelete(_, _)
SearchParamsForEachDelete(list, i) ==
    IF i > Len(list) THEN list
    ELSE SearchParamsForEachDelete(SearchParamsDelete(list, list[i][2]), i + 1)

\* baseUrl after lines 237-241
RobotsUrl(seed) ==
    [origin |-> seed.origin,
     pathname |-> "/robots.txt",
     search |-> SearchParamsForEachDelete(seed.search, 1)]

(***************************************************************************)
(* checkForRobots: the response body.                                      *)
(***************************************************************************)
\* the first capture of body.match(/Sitemap: ([^$]+?)$/m), or <<>> when
\* there is no match (a capture is never empty).
\* From the leftmost "Sitemap: " the capture is the shortest non-empty run
\* holding no "$" that ends where a line ends.
LineEndAt(body, q) == q = Len(body) \/ body[q + 1] \in LineBreaks

CaptureFrom(body, p) ==
    LET ends == {q \in (p + 1)..Len(body) :
                    /\ \A k \in (p + 1)..q : body[k] # "$"
                    /\ LineEndAt(body, q)}
    IN  IF ends = {} THEN <<>>
        ELSE LET q == CHOOSE x \in ends : \A y \in ends : x <= y
             IN  SubSeq(body, p + 1, q)

MatchSitemap(body) ==
    LET starts == {p \in 1..Len(body) :
                      body[p] = "Sitemap: " /\ CaptureFrom(body, p) # <<>>}
    IN  IF starts = {} THEN <<>>
        ELSE CaptureFrom(body, CHOOSE p \in starts : \A r \in starts : p <= r)

ShopifyNote == <<"# we use ", "Shopify", " as our ecommerce platform", "\n">>
RobotsBodies ==
    { <<>>,
      <<"User-agent: *", "\n", "Sitemap: ">> \o Root,
      ShopifyNote \o <<"User-agent: *">>,
      ShopifyNote \o <<"Sitemap: ">>,
      ShopifyNote \o <<"Sitemap: ", "$">>,
      ShopifyNote \o <<"Sitemap: ">> \o Root,
      ShopifyNote \o <<"Sitemap: ">> \o Root \o <<"\n", "Sitemap: ">> \o Sp1 }

RobotsResponses ==
    {[threw |-> TRUE]} \cup
    {[threw |-> FALSE, statusCode |-> c, body |-> b] :
        c \in {200, 301, 404}, b \in RobotsBodies}

\* the error thrown inside the try block of checkForRobots for a response,
\* or "none" (lines 244-276)
RobotsError(res) ==
    IF res.threw THEN "RequestError"
    ELSE IF res.statusCode \notin {200, 301, 302} THEN "Status code"
    ELSE IF res.body = <<>> THEN "Body is empty"
    ELSE IF ~Includes(res.body, <<"Shopify">>) THEN "Not a Shopify URL"
    ELSE IF ~Includes(res.body, <<"Sitemap: ">>) THEN "No sitemap URL"
    ELSE IF MatchSitemap(res.body) = <<>> THEN "Failing to find sitemap URL"
    ELSE "none"


(***************************************************************************)
(* The orchestrator's filter and map (index.js 150-188).                   *)
(***************************************************************************)
\* a variant of FilterSync that tests isProduct before isSitemap
FilterSyncProductFirst(url) ==
    IF ~IsProductUrl(url) THEN [hook |-> FALSE, value |-> "false"]
    ELSE IF IsProductSitemapUrl(url) THEN [hook |-> FALSE, value |-> "true"]
    ELSE [hook |-> TRUE, value |-> "true"]

\* the part of filter(url) that runs before the scraper hook is awaited:
\* [hook |-> TRUE] when the hook decides, else the value returned
FilterSync(url) ==
    IF IsProductSitemapUrl(url) THEN [hook |-> FALSE, value |-> "true"]
    ELSE IF ~IsProductUrl(url) THEN [hook |-> FALSE, value |-> "false"]
    ELSE [hook |-> TRUE, value |-> "true"]

\* a variant of the callback in which the last call decides
FilterCallbackLastWins(filtered, result) == result

\* const filter = (result) => { filtered = filtered && result }
FilterCallback(filtered, result) == JsAnd(filtered, result)

\* the accumulator after the hook has called filter(calls[1]), filter(calls[2]), ...
RECURSIVE HookFilterCalls(_, _)
HookFilterCalls(filtered, calls) ==
    IF calls = <<>> THEN filtered
    ELSE HookFilterCalls(FilterCallback(filtered, Head(calls)), Tail(calls))

\* the calls a scraper hook may make to filter() in one invocation; the
\* no-op compiled for a blank input makes none (fns.js 393-395)
HookCallSeqs(hook) ==
    IF hook = "valid" THEN SeqsUpTo(JsValues, MaxFilterCalls) ELSE {<<>>}

\* what filter(url) resolves to once the hook has returned: let filtered =
\* isProduct, then the hook's calls (index.js 159-176)
HookOutcomes(hook) ==
    {HookFilterCalls("true", calls) : calls \in HookCallSeqs(hook)}

\* a variant that targets the JSON of the product whatever fetchHtml says
MapUrlJsonOnly(url, fetchHtml) ==
    [url |-> url \o <<".json">>, userData |-> [url |-> url, label |-> "JSON"]]

\* map(url): the crawl target; every call builds a new object
MapUrl(url, fetchHtml) ==
    [url |-> IF fetchHtml THEN url ELSE url \o <<".json">>,
     userData |-> [url |-> url,
                   label |-> IF ~fetchHtml THEN "JSON" ELSE "HTML"]]

(***************************************************************************)
(* The output pipeline: extendFunction (fns.js 374-450) as set up for      *)
(* extendOutputFunction (index.js 52-126).                                 *)
(*                                                                         *)
(* A JavaScript value that passes through the pipeline is a record with a  *)
(* type field: an object, an array of values, null or undefined.           *)
(***************************************************************************)
JsObject(rec) == [type |-> "object", rec |-> rec]
JsArray(elems) == [type |-> "array", elems |-> elems]
JsNull == [type |-> "null"]
JsUndefined == [type |-> "undefined"]

\* the products a shop may serve under json.product: product.id is a
\* number, variant.sku a string that may be empty, variant.id a number
Variants == {[id |-> 11, sku |-> "sku-11"], [id |-> 12, sku |-> ""]}
Products ==
    {[id |-> 7, title |-> t, variants |-> vs] :
        t \in {"Cooking for dummies", ""}, vs \in SeqsUpTo(Variants, MaxVariants)}

\* index.js 69-116: the record built for one variant (the fields the
\* pipeline's callers tell records apart by)
CanonicalRecord(product, variant, url) ==
    [url |-> url,
     title |-> product.title,
     id |-> ToString(product.id),
     sku |-> IF variant.sku # "" THEN variant.sku ELSE ToString(variant.id)]

\* a variant in which only the first variant of the product is mapped
OutputMapFirstVariant(data) ==
    JsArray([i \in 1..(IF data.product.variants = <<>> THEN 0 ELSE 1) |->
                JsObject(CanonicalRecord(data.product, data.product.variants[i],
                                         data.url))])

\* index.js 54-118: map(data)
OutputMap(data) ==
    JsArray([i \in 1..Len(data.product.variants) |->
                JsObject(CanonicalRecord(data.product, data.product.variants[i],
                                         data.url))])

\* Array.isArray(value) ? value : [value] (fns.js 419-423, 440)
AsArray(value) == IF value.type = "array" THEN value.elems ELSE <<value>>

\* fns.js 416-424: splitMap
SplitMap(data) == AsArray(OutputMap(data))

\* what the compiled hook may return for an item: the no-op compiled for a
\* blank input returns the item (fns.js 393-395); a user hook returns the
\* item, a changed record, null, nothing, or an array; JsThrow stands for
\* an exception.  "flaky" is a user hook that returns the item unless it
\* throws
JsThrow == [type |-> "throw"]
Changed(item, mark) == JsObject([item.rec EXCEPT !.title = mark])

HookResults(hook, item) ==
    IF hook = "valid"
    THEN {item, Changed(item, "changed"), JsNull, JsUndefined,
          JsArray(<<Changed(item, "first"), Changed(item, "second")>>),
          JsArray(<<JsNull, item>>), JsArray(<<>>), JsThrow}
    ELSE IF hook = "flaky" THEN {item, JsThrow}
    ELSE {item}

\* a variant in which every value of the result is handed to output()
SkipNullNever(values) == values

\* fns.js 440-447: the values output() is called with for one result
RECURSIVE SkipNull(_)
SkipNull(values) ==
    IF values = <<>> THEN <<>>
    ELSE IF Head(values).type = "null" THEN SkipNull(Tail(values))
    ELSE <<Head(values)>> \o SkipNull(Tail(values))

Outputs(result) == SkipNull(AsArray(result))

\* index.js 119-121: output(out) is Apify.pushData(out).  What the dataset
\* does with a value that is no object is the collaborator's business: the
\* call may resolve or reject.  Emit gives what was pushed and whether a
\* call rejected.
FirstNonObject(values) ==
    CHOOSE i \in 1..Len(values) :
        /\ values[i].type \notin {"object", "array"}
        /\ \A k \in 1..(i - 1) : values[k].type \in {"object", "array"}

Emit(values) ==
    {[pushed |-> values, threw |-> FALSE]} \cup
    IF \E i \in 1..Len(values) : values[i].type \notin {"object", "array"}
    THEN {[pushed |-> SubSeq(values, 1, FirstNonObject(values)), threw |-> TRUE]}
    ELSE {}

\* fns.js 430-447 for one item: the item, the hook's result, the values
\* output() was called with, and whether the hook or a call of output() threw
ItemRuns(hook, item) ==
    UNION {IF result.type = "throw"
           THEN {[item |-> item, result |-> result, outputs |-> <<>>, threw |-> TRUE]}
           ELSE {[item |-> item, result |-> result, outputs |-> e.pushed,
                  threw |-> e.threw] : e \in Emit(Outputs(result))} :
           result \in HookResults(hook, item)}

\* a variant in which an item that threw is skipped and the loop goes on
RECURSIVE PipelineRunsCatching(_, _)
PipelineRunsCatching(hook, items) ==
    IF items = <<>> THEN {<<>>}
    ELSE UNION {{<<r>> \o rest : rest \in PipelineRunsCatching(hook, Tail(items))} :
                r \in ItemRuns(hook, Head(items))}

\* fns.js 426-449 for the items left: every way the loop may go, as the
\* entries of the items it reached; an exception ends the loop
RECURSIVE PipelineRuns(_, _)
PipelineRuns(hook, items) ==
    IF items = <<>> THEN {<<>>}
    ELSE UNION {IF r.threw THEN {<<r>>}
                ELSE {<<r>> \o rest : rest \in PipelineRuns(hook, Tail(items))} :
                r \in ItemRuns(hook, Head(items))}

\* whether the call rejected, and the values handed to output() during it
Threw(log) == log # <<>> /\ log[Len(log)].threw

RECURSIVE Emitted(_)
Emitted(log) ==
    IF log = <<>> THEN <<>> ELSE Emitted(SubSeq(log, 1, Len(log) - 1)) \o log[Len(log)].outputs

\* request.url.replace('.json', '') (index.js 246): the first occurrence
\* is removed
RECURSIVE StripJson(_)
StripJson(url) ==
    IF url = <<>> THEN <<>>
    ELSE IF Head(url) = ".json" THEN Tail(url)
    ELSE <<Head(url)>> \o StripJson(Tail(url))

\* index.js 265-267: the record of a request that failed all its retries
FailedRecord(u) == [type |-> "object", failed |-> u]

(***************************************************************************)
(* The fields map() computes for one variant (index.js 66-117) and the     *)
(* helpers of fns.js it calls.  A text is a sequence of tokens, <<>> the   *)
(* empty string; a value that may be undefined, null or a string is a      *)
(* record [kind, text].                                                    *)
(***************************************************************************)
JsValue(kind, text) == [kind |-> kind, text |-> text]
Undefined == JsValue("undefined", <<>>)
Null == JsValue("null", <<>>)
String(text) == JsValue("string", text)

\* String.prototype.toLowerCase, token by token
LowerCase(token) ==
    CASE token \in {"Title", "TITLE", "title"} -> "title"
      [] token \in {"Default", "default"} -> "default"
      [] token = "Color" -> "color"
      [] token = "Size" -> "size"
      [] token = "Material" -> "material"
      [] token = "Sub" -> "sub"
      [] OTHER -> token
ToLowerCase(text) == [i \in 1..Len(text) |-> LowerCase(text[i])]

\* a variant in which the test tells upper case from lower case
DefaultTitleTestCaseSensitive(text) ==
    \E i \in 1..Len(text) : text[i] \in {"Default", "title"}

\* fns.js 205: /(Default|title)/i.test(text), the pattern found anywhere in
\* the text
DefaultTitleTest(text) ==
    \E i \in 1..Len(text) : LowerCase(text[i]) \in {"default", "title"}

\* variant[`option${i}`]: a variant carries option1, option2 and option3; a
\* value that is null, undefined or '' is <<>>
VariantProp(variant, i) ==
    CASE i = 1 -> variant.option1
      [] i = 2 -> variant.option2
      [] i = 3 -> variant.option3
      [] OTHER -> <<>>

\* Array.prototype.join
RECURSIVE Join(_, _)
Join(parts, sep) ==
    IF parts = <<>> THEN <<>>
    ELSE IF Len(parts) = 1 THEN parts[1]
    ELSE parts[1] \o sep \o Join(Tail(parts), sep)

\* a variant in which a slot without a value still adds its fragment
RECURSIVE EveryFragment(_, _, _)
EveryFragment(variant, options, i) ==
    IF i > Len(options) THEN <<>>
    ELSE <<options[i].name \o <<": ">> \o VariantProp(variant, i)>>
         \o EveryFragment(variant, options, i + 1)

\* fns.js 213-221: the `Name: value` fragments pushed by the loop, from
\* slot i on
RECURSIVE Fragments(_, _, _)
Fragments(variant, options, i) ==
    IF i > Len(options) THEN <<>>
    ELSE (IF VariantProp(variant, i) # <<>>
          THEN <<options[i].name \o <<": ">> \o VariantProp(variant, i)>>
          ELSE <<>>)
         \o Fragments(variant, options, i + 1)

\* fns.js 213-221: props after the loop; a later slot with the same
\* lowercased name overwrites an earlier one
Props(variant, options) ==
    LET used == {i \in 1..Len(options) : VariantProp(variant, i) # <<>>}
        last(k) == CHOOSE i \in used :
                       /\ ToLowerCase(options[i].name) = k
                       /\ \A j \in used : ToLowerCase(options[j].name) = k => j <= i
    IN  [k \in {ToLowerCase(options[i].name) : i \in used} |->
            VariantProp(variant, last(k))]

NoProps == [k \in {} |-> <<>>]

\* fns.js 204-224: getVariantAttributes(variant, product); `${undefined}`
\* is the text 'undefined'
GetVariantAttributes(variant, product) ==
    LET options == product.options
        first == IF options = <<>> THEN <<"undefined">> ELSE options[1].name
    IN  IF DefaultTitleTest(first)
        THEN [name |-> <<"Default">>, props |-> NoProps]
        ELSE [name |-> Join(Fragments(variant, options, 1), <<" / ">>),
              props |-> Props(variant, options)]

\* new Date(value).getTime(), in seconds: undefined is no time, null is
\* the number 0, a string is parsed
EpochText == <<"1970-01-01T00:00:00", ".000Z">>
DateTexts == {<<"2021-03-04T05:06:07", "-05:00">>, <<"2021-03-04T10:06:07", "Z">>}
NewDate(value) ==
    CASE value.kind = "undefined" -> NaN
      [] value.kind = "null" -> Num(0)
      [] value.text \in DateTexts -> Num(1614852367)
      [] value.text = EpochText -> Num(0)
      [] OTHER -> NaN

\* Date.prototype.toISOString: RangeError for an invalid date
ToISOString(time) ==
    IF time.nan THEN JsThrow
    ELSE IF time.n = 0 THEN String(EpochText)
    ELSE String(<<"2021-03-04T10:06:07", ".000Z">>)

\* fns.js 13-19: safeIsoDate(date)
SafeIsoDate(date) ==
    LET iso == ToISOString(NewDate(date))
    IN  IF iso = JsThrow THEN Null ELSE iso

\* props.key ?? fallback (index.js 92-94)
PropOr(props, key, fallback) ==
    IF key \in DOMAIN props THEN String(props[key]) ELSE fallback

\* index.js 79-81: availability; inventory_quantity is [kind, n] with kind
\* "absent" (no such key), "null" or "number", and null > 0 is false
Availability(variant) ==
    IF variant.inventory_quantity.kind # "absent"
    THEN (IF variant.inventory_quantity.kind = "number"
             /\ variant.inventory_quantity.n > 0
          THEN "in stock" ELSE "out of stock")
    ELSE "in stock"

\* product.image when the product has none
NoImage == [id |-> 0, src |-> <<>>, variant_ids |-> <<>>]

\* fns.js mapIdsFromArray: new Map of [item.id, item] over the items that
\* are not null; a later item replaces an earlier one of the same id
MapIdsFromArray(arr) ==
    LET live == {i \in 1..Len(arr) : arr[i] # NoImage}
        last(id) == CHOOSE i \in live :
                        arr[i].id = id /\ \A j \in live : arr[j].id = id => j <= i
    IN  [id \in {arr[i].id : i \in live} |-> arr[last(id)]]

\* Array.prototype.map(({ src }) => src)
Srcs(arr) == [i \in 1..Len(arr) |-> arr[i].src]

\* index.js 250-252: the images no variant is linked to
ImagesWithoutVariants(product) ==
    LET unlinked(image) == image.src # <<>> /\ image.variant_ids = <<>>
    IN  Srcs(SelectSeq(product.images, unlinked))

\* fns.js removeUrlQueryString: `${url}`.split('?', 2)[0]
RECURSIVE RemoveUrlQueryString(_)
RemoveUrlQueryString(url) ==
    IF url = <<>> \/ Head(url) = "?" THEN <<>>
    ELSE <<Head(url)>> \o RemoveUrlQueryString(Tail(url))

\* [...new Set(arr)]: the first occurrence of each member, in order
RECURSIVE SetOrder(_, _)
SetOrder(arr, seen) ==
    IF arr = <<>> THEN <<>>
    ELSE IF Head(arr) \in seen THEN SetOrder(Tail(arr), seen)
    ELSE <<Head(arr)>> \o SetOrder(Tail(arr), seen \cup {Head(arr)})

\* fns.js uniqueNonEmptyArray
UniqueNonEmptyArray(arr) ==
    LET truthy(s) == s # <<>> IN SelectSeq(SetOrder(arr, {}), truthy)

\* a variant in which a later source is read only when the earlier ones
\* gave nothing
ImagesUrlsFallback(variant, images, imagesWithoutVariants, product) ==
    LET truthy(s) == s # <<>>
        linked == IF variant.image_id \in DOMAIN images
                  THEN <<images[variant.image_id].src>> ELSE <<>>
        chosen == IF SelectSeq(linked, truthy) # <<>> THEN linked
                  ELSE IF imagesWithoutVariants # <<>> THEN imagesWithoutVariants
                  ELSE <<product.image.src>>
        stripped == [i \in 1..Len(SelectSeq(chosen, truthy)) |->
                        RemoveUrlQueryString(SelectSeq(chosen, truthy)[i])]
    IN  UniqueNonEmptyArray(stripped)

\* index.js 85-89: images_urls
ImagesUrls(variant, images, imagesWithoutVariants, product) ==
    LET truthy(s) == s # <<>>
        flat == (IF variant.image_id \in DOMAIN images
                 THEN <<images[variant.image_id].src>> ELSE <<>>)
                \o imagesWithoutVariants \o <<product.image.src>>
        kept == SelectSeq(flat, truthy)
    IN  UniqueNonEmptyArray([i \in 1..Len(kept) |-> RemoveUrlQueryString(kept[i])])

\* index.js 66-117: the fields of the record that depend on more than one
\* property of the product
VariantFields(product, variant, images, imagesWithoutVariants, props, name) ==
    [availability |-> Availability(variant),
     images_urls |-> ImagesUrls(variant, images, imagesWithoutVariants, product),
     created_at |-> SafeIsoDate(PropOr(props, <<"created_at">>, product.created_at)),
     updated_at |-> SafeIsoDate(PropOr(props, <<"updated_at">>, product.updated_at)),
     published_at |-> SafeIsoDate(PropOr(props, <<"published_at">>, product.published_at)),
     variant_attributes |-> name]

(***************************************************************************)
(* Collections.                                                            *)
(***************************************************************************)
\* [...set.values()]: the members as an array
RECURSIVE Values(_)
Values(S) ==
    IF S = {} THEN <<>>
    ELSE LET x == CHOOSE y \in S : TRUE IN <<x>> \o Values(S \ {x})

\* Apify.openRequestList(name, sources): one request per unique URL, in
\* source order
RECURSIVE UniqueUrls(_, _)
UniqueUrls(sources, seen) ==
    IF sources = <<>> THEN <<>>
    ELSE IF Head(sources) \in seen THEN UniqueUrls(Tail(sources), seen)
    ELSE <<Head(sources)>> \o UniqueUrls(Tail(sources), seen \cup {Head(sources)})

\* Set.prototype.add(obj) for a Set of objects: SameValueZero compares
\* object identity.  An object is [ref, val]; ref names the allocation.
SetAdd(set, obj) ==
    IF \E o \in set : o.ref = obj.ref THEN set ELSE set \cup {obj}

\* allocation of the object literal returned by map(url): an identity no
\* live object has, named after its content
NewObject(heap, val) ==
    LET n == Cardinality({o \in heap : o.val = val})
    IN  [ref |-> <<val.url, n + 1>>, val |-> val]


(***************************************************************************)
(* State.                                                                  *)
(***************************************************************************)
VARIABLES
    cfg,                  \* the input fields other than startUrls
    site,                 \* the shop: how many <url> and <sitemap> entries
                          \* its sitemaps are still to serve, how many
                          \* requests its server is still to fail
    startUrls,            \* input.startUrls; from checkForRobots on, the
                          \* sources of INPUTURLS not yet yielded
    nSeeds,               \* input.startUrls.length
    kv,                   \* the key-value store: FILTERED and STATS
    pc,                   \* where entry() stands
    thrown,               \* the error entry() rejected with, or "none"
    listening,            \* persistState is registered on aborting/migrating
    filteredSitemapUrls,  \* the Set shared with the SETUP hook
    baseUrl,              \* checkForRobots: the URL of the request in flight
    hookCalls,            \* scraper hook invocations per label
    lastEvent,            \* what the last step did: [kind, detail]
    sitemapUrls,          \* requestListFromSitemaps: the roots passed in
    limit,                \* requestListFromSitemaps: the cap
    rl,                   \* the requests of the crawler's request list not yet taken
    rq,                   \* the request queue: url -> [handled, retryCount]
    running,              \* requests being handled: url -> the handler's locals
    urls,                 \* requestListFromSitemaps: the result Set
    requestList,          \* the STARTURLS request list
    fetched,              \* sitemap URLs a fetch was issued for
    idxAccepted,          \* <sitemap><loc> URLs the filter accepted
    idxRejected,          \* <sitemap><loc> URLs the filter rejected
    flt,                  \* one evaluation of the orchestrator's filter(url),
                          \* call by call: [pc, url, filtered, calls, hooks, result]
    out,                  \* one call of extendOutputFunction(data), item by
                          \* item: [pc, data, items, log]
    dataset,              \* the values Apify.pushData was called with, in order
    mapped                \* one variant going through map() (index.js 66-117):
                          \* [pc, product, variant, record]

vars == <<cfg, startUrls, nSeeds, kv, pc, thrown, listening,
          filteredSitemapUrls, baseUrl, hookCalls, lastEvent, sitemapUrls,
          limit, rl, rq, running, urls, requestList, fetched, site,
          idxAccepted, idxRejected, flt, out, dataset, mapped>>

inputVars == <<cfg, nSeeds, flt, out, mapped>>
sitemapVars == <<site, sitemapUrls, limit, rl, rq, running, urls,
                 fetched, idxAccepted, idxRejected>>

NoRequests == [u \in {} |-> u]
NoUrl == [origin |-> "", pathname |-> "", search |-> <<>>]
Event(kind, detail) == [kind |-> kind, detail |-> detail]
HookCode == {"blank", "valid", "invalid"}

Limits ==
    {[given |-> FALSE, n |-> 0]} \cup {[given |-> TRUE, n |-> k] : k \in 0..MaxLimit}

\* <url><loc> and <sitemap><loc> texts a document of the shop may hold.
LeafLocs == {PA, PB, Pages, PaddedPA}
IndexLocs == {Sp1, Pages, ProdIdx}

\* What the shop answers to the request of a product's JSON: the status
\* and context.json, which is null when the body is no JSON ("null"), an
\* object without a product ("empty") or an object with one ("product")
Page(statusCode, json, product) ==
    [statusCode |-> statusCode, json |-> json, product |-> product]
NoProduct == [id |-> 0, title |-> "", variants |-> <<>>]
PlainProduct == [id |-> 7, title |-> "Cooking for dummies", variants |-> <<[id |-> 11, sku |-> "sku-11"]>>]
PlainPages == {Page(200, "product", PlainProduct)}

\* A shop.  The text of the documents in docs is fixed: url -> the <url><loc>
\* and <sitemap><loc> entries not yet read.  Any other document serves
\* entries out of leafLocs and indexLocs while the budgets last.
Document(leaves, indexes) == [leaves |-> leaves, indexes |-> indexes]
NoDocuments == [u \in {} |-> Document(<<>>, <<>>)]

Site(leaves, indexes, failures, leafLocs, indexLocs) ==
    [leaves |-> leaves, indexes |-> indexes, failures |-> failures,
     leafLocs |-> leafLocs, indexLocs |-> indexLocs, docs |-> NoDocuments,
     pages |-> PlainPages]

\* what an earlier run may have left under FILTERED
PersistedFiltered == {<<>>, <<Root>>, <<Sp1>>}

\* the variables of requestListFromSitemaps and of the crawl before either
\* has begun
Idle ==
    /\ sitemapUrls = <<>>
    /\ limit = NaN
    /\ rl = <<>>
    /\ rq = NoRequests
    /\ running = NoRequests
    /\ urls = {}
    /\ requestList = <<>>
    /\ fetched = {}
    /\ idxAccepted = {}
    /\ idxRejected = {}
    /\ dataset = <<>>

\* filter(url) before its first line has run; no evaluation is followed
\* when url is <<>>
FilterEntered(url) ==
    [pc |-> "call", url |-> url, filtered |-> "", calls |-> <<>>, hooks |-> 0,
     result |-> ""]

\* extendOutputFunction(data) before its first line has run; no call is
\* followed when data is NoData
NoData == [product |-> NoProduct, url |-> <<>>]
OutputEntered(data) ==
    [pc |-> "call", data |-> data, items |-> <<>>, log |-> <<>>]

\* json.product and one of its variants, as far as map() reads them beyond
\* CanonicalRecord: the stock count, the sale flag, the linked image, the
\* option values, the option names, the images and the dates
Quantity(kind, n) == [kind |-> kind, n |-> n]
Quantities ==
    {Quantity("absent", 0), Quantity("null", 0)}
        \cup {Quantity("number", n) : n \in {-1, 0, 5}}
SaleFlags == {"absent", "true", "false"}

NoVariant ==
    [inventory_quantity |-> Quantity("absent", 0), available |-> "absent",
     image_id |-> 0, option1 |-> <<>>, option2 |-> <<>>, option3 |-> <<>>]
NoProductData ==
    [options |-> <<>>, images |-> <<>>, image |-> NoImage,
     created_at |-> Undefined, updated_at |-> Undefined,
     published_at |-> Undefined]

Image(id, src, variant_ids) == [id |-> id, src |-> src, variant_ids |-> variant_ids]
ImgA == Image(1, <<"cdn/a.jpg", "?", "v=1">>, <<11>>)
ImgB == Image(2, <<"cdn/b.jpg">>, <<>>)
ImgA2 == Image(3, <<"cdn/a.jpg", "?", "v=2">>, <<>>)
ImgE == Image(4, <<>>, <<>>)
ImgQ == Image(5, <<"?", "v=3">>, <<>>)
ImgC == Image(6, <<"cdn/c.jpg">>, <<12>>)
ImgD == Image(9, <<"cdn/d.jpg", "?", "v=1">>, <<>>)
Images == {ImgA, ImgB, ImgA2, ImgE, ImgQ, ImgC}

OptionNames ==
    {<<"Title">>, <<"TITLE">>, <<"Color">>, <<"Size">>, <<"Material">>,
     <<"Sub", "title">>}
OptionLists ==
    {os \in SeqsUpTo({[name |-> n] : n \in OptionNames}, MaxOptions) :
        \A i, j \in 1..Len(os) :
            ToLowerCase(os[i].name) = ToLowerCase(os[j].name) => i = j}

DateValues ==
    {Undefined, Null, String(<<"soon">>)} \cup {String(t) : t \in DateTexts}

\* the products and variants map() is followed on: each family varies the
\* properties one field of the record is computed from
MapInputs ==
    {<<NoProductData, [NoVariant EXCEPT !.inventory_quantity = q, !.available = a]>> :
        q \in Quantities, a \in SaleFlags}
    \cup
    {<<[NoProductData EXCEPT !.images = images, !.image = image],
       [NoVariant EXCEPT !.image_id = id]>> :
        images \in SeqsUpTo(Images, MaxImages), image \in {NoImage, ImgA, ImgD},
        id \in {0, 1}}
    \cup
    {<<[NoProductData EXCEPT !.options = os],
       [NoVariant EXCEPT !.option1 = o1, !.option2 = o2, !.option3 = o3]>> :
        os \in OptionLists, o1 \in {<<>>, <<"Red">>}, o2 \in {<<>>, <<"M">>},
        o3 \in {<<>>, <<"Wool">>}}
    \cup
    {<<[NoProductData EXCEPT !.created_at = c, !.updated_at = u, !.published_at = p],
       NoVariant>> :
        c \in DateValues, u \in DateValues, p \in DateValues}

\* map() before it has read the variant, and when no variant is followed
NoRecord ==
    [availability |-> "", images_urls |-> <<>>, created_at |-> Undefined,
     updated_at |-> Undefined, published_at |-> Undefined,
     variant_attributes |-> <<>>]
MapEntered(product, variant) ==
    [pc |-> "call", product |-> product, variant |-> variant,
     attributes |-> [name |-> <<>>, props |-> NoProps], record |-> NoRecord]
NotMapping == [MapEntered(NoProductData, NoVariant) EXCEPT !.pc = "idle"]

\* entry() is called
Started(seeds) ==
    /\ startUrls \in seeds
    /\ nSeeds = Len(startUrls)
    /\ kv \in [FILTERED : PersistedFiltered, STATS : {-1}]
    /\ pc = "start"
    /\ thrown = "none"
    /\ listening = FALSE
    /\ filteredSitemapUrls = {}
    /\ baseUrl = NoUrl
    /\ hookCalls = [SETUP |-> 0, RUN |-> 0, FINISHED |-> 0]
    /\ lastEvent = Event("none", "")
    /\ flt = FilterEntered(<<>>)
    /\ out = OutputEntered(NoData)
    /\ mapped = NotMapping
    /\ Idle

\* a whole run, on a small shop
Init ==
    /\ cfg \in [maxConcurrency : 1..MaxConcurrency,
                maxRequestsPerCrawl : {[given |-> FALSE, n |-> 0], [given |-> TRUE, n |-> 1]},
                fetchHtml : BOOLEAN,
                extendScraperFunction : HookCode,
                extendOutputFunction : {"blank", "invalid"},
                maxRequestRetries : {DefaultMaxRequestRetries}]
    /\ site = Site(RunMaxLeaves, RunMaxIndexes, RunMaxFailures, {PA, Pages}, {Sp1, ProdIdx})
    /\ Started(SeqsUpTo({s \in SeedUrls : ~s.usable \/ s.search = <<>>}, RunMaxSeeds))

\* a whole run without hooks and without a cap, on a shop whose root
\* sitemap lists a product sitemap and an unrelated one, the product sitemap
\* listing three products
PlainSeed == [usable |-> TRUE, origin |-> Origin, pathname |-> "/", search |-> <<>>]

ListedShop ==
    {[Site(0, 0, RunMaxFailures, {}, {}) EXCEPT
        !.docs = (Root :> Document(<<>>, indexes)) @@ (Sp1 :> Document(leaves, <<>>))] :
        indexes \in {<<Sp1, Pages>>, <<Pages, Sp1>>},
        leaves \in {<<PA, PB, PC>>, <<PC, PaddedPA, PB>>}}

InitEndToEnd ==
    /\ cfg \in [maxConcurrency : 1..MaxConcurrency,
                maxRequestsPerCrawl : {[given |-> FALSE, n |-> 0], [given |-> TRUE, n |-> 0]},
                fetchHtml : BOOLEAN,
                extendScraperFunction : {"blank"},
                extendOutputFunction : {"blank"},
                maxRequestRetries : {DefaultMaxRequestRetries}]
    /\ site \in ListedShop
    /\ Started({<<PlainSeed>>})
    /\ kv.FILTERED = <<>>

\* checkForRobots, on every list of seeds
InitRobots ==
    /\ cfg \in [maxConcurrency : {1},
                maxRequestsPerCrawl : {[given |-> FALSE, n |-> 0]},
                fetchHtml : {FALSE},
                extendScraperFunction : {"blank"},
                extendOutputFunction : {"blank"},
                maxRequestRetries : {DefaultMaxRequestRetries}]
    /\ site = Site(0, 0, 0, {}, {})
    /\ Started(SeqsUpTo(SeedUrls, MaxSeeds))

\* requestListFromSitemaps is about to be called: SETUP has returned with
\* some roots in the Set
InitSitemaps ==
    /\ cfg \in [maxConcurrency : 1..MaxConcurrency,
                maxRequestsPerCrawl : Limits,
                fetchHtml : {FALSE},
                extendScraperFunction : {"blank", "valid"},
                extendOutputFunction : {"blank"},
                maxRequestRetries : {DefaultMaxRequestRetries}]
    /\ site = Site(MaxLeaves, MaxIndexes, MaxFailures, LeafLocs, IndexLocs)
    /\ startUrls = <<>>
    /\ nSeeds = 1
    /\ kv = [FILTERED |-> <<>>, STATS |-> -1]
    /\ pc = "sitemapsOpen"
    /\ thrown = "none"
    /\ listening = TRUE
    /\ filteredSitemapUrls \in {{Root}, {Pages}}
    /\ baseUrl = NoUrl
    /\ hookCalls = [SETUP |-> 1, RUN |-> 0, FINISHED |-> 0]
    /\ lastEvent = Event("hook", "SETUP")
    /\ flt = FilterEntered(<<>>)
    /\ out = OutputEntered(NoData)
    /\ mapped = NotMapping
    /\ Idle

\* extendOutputFunction(data) is about to be called from the page handler
\* (index.js 254-260) with a product that has a title
InitOutput ==
    /\ cfg \in [maxConcurrency : {1},
                maxRequestsPerCrawl : {[given |-> FALSE, n |-> 0]},
                fetchHtml : {FALSE},
                extendScraperFunction : {"blank"},
                extendOutputFunction : {"blank", "valid"},
                maxRequestRetries : {DefaultMaxRequestRetries}]
    /\ site = Site(0, 0, 0, {}, {})
    /\ startUrls = <<>>
    /\ nSeeds = 1
    /\ kv = [FILTERED |-> <<>>, STATS |-> -1]
    /\ pc = "crawl"
    /\ thrown = "none"
    /\ listening = TRUE
    /\ filteredSitemapUrls = {}
    /\ baseUrl = NoUrl
    /\ hookCalls = [SETUP |-> 1, RUN |-> 1, FINISHED |-> 0]
    /\ lastEvent = Event("hook", "POSTNAVIGATION")
    /\ flt = FilterEntered(<<>>)
    /\ out \in {OutputEntered([product |-> p, url |-> PA]) :
                    p \in {q \in Products : q.title # ""}}
    /\ mapped = NotMapping
    /\ Idle

\* the crawl is about to begin (index.js 271): the traversal has returned
\* the targets, one per product URL
TwoVariants == [id |-> 7, title |-> "Cooking for dummies",
                variants |-> <<[id |-> 11, sku |-> "sku-11"], [id |-> 12, sku |-> ""]>>]
Untitled == [id |-> 7, title |-> "", variants |-> <<[id |-> 11, sku |-> "sku-11"]>>]

CrawlPages ==
    {PlainPages,
     {Page(200, "product", TwoVariants)},
     {Page(404, "empty", NoProduct)},
     {Page(404, "null", NoProduct), Page(404, "product", Untitled)},
     {Page(200, "empty", NoProduct), Page(200, "product", Untitled),
      Page(200, "product", PlainProduct)}}

CrawlTargets(fetchHtml) ==
    {[i \in 1..n |-> MapUrl(<<PA, PB, PC>>[i], fetchHtml)] : n \in 1..MaxTargets}

InitCrawl ==
    /\ cfg \in [maxConcurrency : 1..MaxConcurrency,
                maxRequestsPerCrawl : {[given |-> FALSE, n |-> 0]},
                fetchHtml : {FALSE},
                extendScraperFunction : {"blank"},
                extendOutputFunction : {"blank", "flaky"},
                maxRequestRetries : 0..MaxRetries]
    /\ site \in {[Site(0, 0, failures, {}, {}) EXCEPT !.pages = pages] :
                    failures \in 0..MaxFailures, pages \in CrawlPages}
    /\ startUrls = <<>>
    /\ nSeeds = 1
    /\ pc = "run"
    /\ thrown = "none"
    /\ listening = TRUE
    /\ filteredSitemapUrls = {Root}
    /\ baseUrl = NoUrl
    /\ hookCalls = [SETUP |-> 1, RUN |-> 0, FINISHED |-> 0]
    /\ lastEvent = Event("return", "")
    /\ flt = FilterEntered(<<>>)
    /\ out = OutputEntered(NoData)
    /\ mapped = NotMapping
    /\ sitemapUrls = <<Root>>
    /\ limit = NaN
    /\ rl = <<>>
    /\ rq = NoRequests
    /\ running = NoRequests
    /\ urls = {}
    /\ requestList \in CrawlTargets(cfg.fetchHtml)
    /\ kv = [FILTERED |-> <<>>, STATS |-> Len(requestList)]
    /\ fetched = {Root}
    /\ idxAccepted = {}
    /\ idxRejected = {}
    /\ dataset = <<>>

\* a run has called FINISHED and is about to persist the Set, whose members
\* came from robots.txt or from the SETUP hook
InitRoundTrip ==
    /\ cfg \in [maxConcurrency : {1},
                maxRequestsPerCrawl : {[given |-> FALSE, n |-> 0]},
                fetchHtml : {FALSE},
                extendScraperFunction : {"blank"},
                extendOutputFunction : {"blank"},
                maxRequestRetries : {DefaultMaxRequestRetries}]
    /\ site = Site(0, 0, 0, {}, {})
    /\ startUrls = <<>>
    /\ nSeeds = 1
    /\ kv \in [FILTERED : PersistedFiltered, STATS : {0}]
    /\ pc = "persist"
    /\ thrown = "none"
    /\ listening = TRUE
    /\ filteredSitemapUrls \in SUBSET {Root, Sp1, Secret}
    /\ baseUrl = NoUrl
    /\ hookCalls = [SETUP |-> 1, RUN |-> 1, FINISHED |-> 1]
    /\ lastEvent = Event("hook", "FINISHED")
    /\ flt = FilterEntered(<<>>)
    /\ out = OutputEntered(NoData)
    /\ mapped = NotMapping
    /\ Idle

\* a whole run during which the platform may abort or migrate the actor
InitEvents ==
    /\ Init
    /\ cfg.maxConcurrency = MaxConcurrency
    /\ ~cfg.fetchHtml
    /\ ~cfg.maxRequestsPerCrawl.given
    /\ cfg.extendScraperFunction = "valid"
    /\ cfg.extendOutputFunction = "blank"
    /\ kv.FILTERED = <<>>

\* the URLs filter(url) is evaluated on, one evaluation at a time
FilterUrls ==
    {Root, Sp1, Pages, PA, PaddedPA, ProdIdx,
     <<Origin, "/", "products", "/", "sitemap_products_", "2", ".xml">>,
     <<Origin, "/", "sitemap_products_", ".xml">>,
     <<Origin, "/", "products">>,
     <<Origin, "/", "collections", "/", "all", "/", "products", "/", "a">>}

InitFilter ==
    /\ cfg \in [maxConcurrency : {1},
                maxRequestsPerCrawl : {[given |-> FALSE, n |-> 0]},
                fetchHtml : {FALSE},
                extendScraperFunction : {"blank", "valid"},
                extendOutputFunction : {"blank"},
                maxRequestRetries : {DefaultMaxRequestRetries}]
    /\ site = Site(0, 0, 0, {}, {})
    /\ startUrls = <<>>
    /\ nSeeds = 1
    /\ kv = [FILTERED |-> <<>>, STATS |-> -1]
    /\ pc = "sitemaps"
    /\ thrown = "none"
    /\ listening = TRUE
    /\ filteredSitemapUrls = {}
    /\ baseUrl = NoUrl
    /\ hookCalls = [SETUP |-> 1, RUN |-> 0, FINISHED |-> 0]
    /\ lastEvent = Event("hook", "SETUP")
    /\ flt \in {FilterEntered(url) : url \in FilterUrls}
    /\ out = OutputEntered(NoData)
    /\ mapped = NotMapping
    /\ Idle

(***************************************************************************)
(* entry(): input, persisted state (index.js 10-44).                       *)
(***************************************************************************)
Fail(message) ==
    /\ pc' = "failed"
    /\ thrown' = message

\* a variant in which an empty startUrls is not refused
StartUnchecked ==
    /\ pc = "start"
    /\ \E proxyAccepted \in BOOLEAN :
        /\ lastEvent' = Event("start", IF proxyAccepted THEN "proxy accepted"
                                                        ELSE "proxy rejected")
        /\ IF ~proxyAccepted THEN Fail("You must use Apify proxy or custom proxy URLs")
           ELSE pc' = "loadState" /\ thrown' = thrown
    /\ UNCHANGED <<inputVars, dataset, startUrls, kv, listening, filteredSitemapUrls,
                   baseUrl, hookCalls, sitemapVars, requestList>>

\* lines 10-32: fns.proxyConfiguration may reject the proxy settings
\* (fns.js 319-331); an empty startUrls is refused
Start ==
    /\ pc = "start"
    /\ \E proxyAccepted \in BOOLEAN :
        /\ lastEvent' = Event("start", IF proxyAccepted THEN "proxy accepted"
                                                        ELSE "proxy rejected")
        /\ IF ~proxyAccepted THEN Fail("You must use Apify proxy or custom proxy URLs")
           ELSE IF Len(startUrls) = 0 THEN Fail("Missing \"startUrls\" input")
           ELSE pc' = "loadState" /\ thrown' = thrown
    /\ UNCHANGED <<inputVars, dataset, startUrls, kv, listening, filteredSitemapUrls,
                   baseUrl, hookCalls, sitemapVars, requestList>>

\* lines 37-44, then checkForRobots is called (46-50) and fromStartUrls
\* opens INPUTURLS (fns.js 58), a request list: one request per unique URL
LoadState ==
    /\ pc = "loadState"
    /\ filteredSitemapUrls' = Range(kv.FILTERED)
    /\ listening' = TRUE
    /\ startUrls' = UniqueUrls(startUrls, {})
    /\ pc' = "robots"
    /\ lastEvent' = Event("loadState", "")
    /\ UNCHANGED <<inputVars, dataset, kv, thrown, baseUrl, hookCalls,
                   sitemapVars, requestList>>

(***************************************************************************)
(* checkForRobots (fns.js 235-283).                                        *)
(***************************************************************************)
\* lines 236-252: the next seed is yielded, its robots URL built and
\* requested; new URL(url) stands outside the try block
RobotsRequest ==
    /\ pc = "robots"
    /\ startUrls # <<>>
    /\ startUrls' = Tail(startUrls)
    /\ LET seed == Head(startUrls) IN
        IF ~seed.usable
        THEN /\ Fail("Invalid URL")
             /\ baseUrl' = baseUrl
             /\ lastEvent' = Event("robotsSeed", "Invalid URL")
        ELSE /\ baseUrl' = RobotsUrl(seed)
             /\ pc' = "robotsAwait"
             /\ thrown' = thrown
             /\ lastEvent' = Event("robotsRequest", "")
    /\ UNCHANGED <<inputVars, dataset, kv, listening, filteredSitemapUrls, hookCalls,
                   sitemapVars, requestList>>

\* lines 254-281: the response is checked; an error is logged and dropped
RobotsResponse ==
    /\ pc = "robotsAwait"
    /\ \E res \in RobotsResponses :
        LET e == RobotsError(res) IN
        /\ filteredSitemapUrls' =
              IF e = "none"
              THEN filteredSitemapUrls \cup {MatchSitemap(res.body)}
              ELSE filteredSitemapUrls
        /\ lastEvent' = Event("robotsResponse", e)
    /\ baseUrl' = NoUrl
    /\ pc' = "robots"
    /\ UNCHANGED <<inputVars, dataset, startUrls, kv, thrown, listening, hookCalls,
                   sitemapVars, requestList>>

\* the generator is exhausted: checkForRobots returns
RobotsDone ==
    /\ pc = "robots"
    /\ startUrls = <<>>
    /\ pc' = "compile"
    /\ lastEvent' = Event("robotsDone", "")
    /\ UNCHANGED <<inputVars, dataset, startUrls, kv, thrown, listening,
                   filteredSitemapUrls, baseUrl, hookCalls, sitemapVars,
                   requestList>>

(***************************************************************************)
(* extendFunction: compilation of the two hooks (fns.js 391-407,           *)
(* index.js 52-136).                                                       *)
(***************************************************************************)
\* a variant in which only the output hook's code is checked
CompileOutputOnly ==
    /\ pc = "compile"
    /\ lastEvent' = Event("compile", "")
    /\ IF cfg.extendOutputFunction = "invalid"
       THEN Fail("\"extendOutputFunction\" parameter must be a function")
       ELSE pc' = "setup" /\ thrown' = thrown
    /\ UNCHANGED <<inputVars, dataset, startUrls, kv, listening, filteredSitemapUrls,
                   baseUrl, hookCalls, sitemapVars, requestList>>

Compile ==
    /\ pc = "compile"
    /\ lastEvent' = Event("compile", "")
    /\ IF cfg.extendOutputFunction = "invalid"
       THEN Fail("\"extendOutputFunction\" parameter must be a function")
       ELSE IF cfg.extendScraperFunction = "invalid"
       THEN Fail("\"extendScraperFunction\" parameter must be a function")
       ELSE pc' = "setup" /\ thrown' = thrown
    /\ UNCHANGED <<inputVars, dataset, startUrls, kv, listening, filteredSitemapUrls,
                   baseUrl, hookCalls, sitemapVars, requestList>>

(***************************************************************************)
(* The SETUP phase (index.js 138-143): the hook edits the Set in place.    *)
(***************************************************************************)
\* what a valid hook may add to the Set
SetupAddable == {Secret, Sp1}

\* the Set after the hook has run
SetupEdits(hook, set) ==
    IF hook = "valid"
    THEN {(set \ del) \cup add : del \in SUBSET set, add \in SUBSET SetupAddable}
    ELSE {set}

Setup ==
    /\ pc = "setup"
    /\ hookCalls' = [hookCalls EXCEPT !.SETUP = @ + 1]
    /\ filteredSitemapUrls' \in SetupEdits(cfg.extendScraperFunction, filteredSitemapUrls)
    /\ pc' = "sitemapsOpen"
    /\ lastEvent' = Event("hook", "SETUP")
    /\ UNCHANGED <<inputVars, dataset, startUrls, kv, thrown, listening, baseUrl,
                   sitemapVars, requestList>>


(***************************************************************************)
(* requestListFromSitemaps (fns.js 92-182) as called from index.js         *)
(* 145-190.  The crawling engine (Apify.BasicCrawler, RequestList,         *)
(* RequestQueue) is a collaborator: a request list holds one request per   *)
(* URL, the queue ignores a URL it already holds, a request whose handler  *)
(* throws is retried until maxRequestRetries is exhausted, and at most     *)
(* maxConcurrency handlers run at a time.                                  *)
(*                                                                         *)
(* The text of a document is an input: its <loc> entries are drawn one by  *)
(* one as the loops of the handler reach them.                             *)
(***************************************************************************)
Handler(p, url, value) == [pc |-> p, url |-> url, value |-> value]

Request(label) ==
    [handled |-> FALSE, retryCount |-> 0, label |-> label, errorMessages |-> <<>>]

Remove(f, u) == [x \in DOMAIN f \ {u} |-> f[x]]

Pending == {u \in DOMAIN rq : ~rq[u].handled /\ u \notin DOMAIN running}

\* a variant of the queue that takes a URL it holds as a new request
AddRequestAgain(queue, url, label) ==
    IF url \in DOMAIN queue THEN [queue EXCEPT ![url] = Request(label)]
    ELSE queue @@ (url :> Request(label))

\* requestQueue.addRequest({ url }): ignored when the queue holds the URL
AddRequest(queue, url, label) ==
    IF url \in DOMAIN queue THEN queue ELSE queue @@ (url :> Request(label))

\* the engine after a handler threw: retry, or give the request up
Reclaim(queue, u, maxRetries) ==
    IF queue[u].retryCount < maxRetries
    THEN [queue EXCEPT ![u].retryCount = @ + 1]
    ELSE [queue EXCEPT ![u].handled = TRUE]

\* a variant in which a request that was handled stays pending
MarkHandledNever(queue, u) == queue

\* the engine after a handler returned
MarkHandled(queue, u) == [queue EXCEPT ![u].handled = TRUE]

\* the engine keeps the message of every failed attempt on the request
PushErrorMessage(queue, u, message) ==
    [queue EXCEPT ![u].errorMessages = Append(@, message)]

\* a variant that also passes what the run loaded from FILTERED
SitemapUrlsArgWithLoaded(set) == Values(set \cup Range(kv.FILTERED))

\* index.js 189: the roots handed to the traversal
SitemapUrlsArg(set) == Values(set)

SitemapsOpen ==
    /\ pc = "sitemapsOpen"
    /\ sitemapUrls' = SitemapUrlsArg(filteredSitemapUrls)
    /\ limit' = ToNumber(cfg.maxRequestsPerCrawl)
    /\ urls' = {}
    /\ rl' = UniqueUrls(sitemapUrls', {})
    /\ pc' = "sitemaps"
    /\ lastEvent' = Event("sitemapsOpen", "")
    /\ UNCHANGED <<inputVars, dataset, site, startUrls, kv, thrown, listening,
                   filteredSitemapUrls, baseUrl, hookCalls, rq, running,
                   requestList, fetched, idxAccepted, idxRejected>>

\* the handler of request u starts: gotScraping is called (lines 122-131)
StartSitemap(u, queue) ==
    /\ Cardinality(DOMAIN running) < cfg.maxConcurrency
    /\ rq' = queue
    /\ running' = running @@ (u :> Handler("fetch", <<>>, ""))
    /\ fetched' = fetched \cup {u}
    /\ lastEvent' = Event("fetch", "")

SitemapTakeFromList ==
    /\ pc = "sitemaps"
    /\ rl # <<>>
    /\ rl' = Tail(rl)
    /\ IF Head(rl) \in DOMAIN rq
       THEN /\ lastEvent' = Event("skip", "")
            /\ UNCHANGED <<rq, running, fetched>>
       ELSE StartSitemap(Head(rl), AddRequest(rq, Head(rl), ""))
    /\ UNCHANGED <<inputVars, dataset, site, startUrls, kv, pc, thrown, listening,
                   filteredSitemapUrls, baseUrl, hookCalls, sitemapUrls,
                   limit, urls, requestList, idxAccepted, idxRejected>>

SitemapTakeFromQueue(u) ==
    /\ pc = "sitemaps"
    /\ u \in Pending
    /\ StartSitemap(u, rq)
    /\ UNCHANGED <<inputVars, dataset, site, startUrls, kv, pc, thrown, listening,
                   filteredSitemapUrls, baseUrl, hookCalls, sitemapUrls,
                   limit, rl, urls, requestList, idxAccepted, idxRejected>>

\* the handler's locals when the loop over $('sitemap loc') reaches its
\* next entry: the entry is cleaned and filter(url) called, or there is
\* none and the handler ends
IndexEntry(raw) ==
    Handler(IF FilterSync(cleanup(raw)).hook THEN "idxHook" ELSE "idxAwait",
            cleanup(raw), FilterSync(cleanup(raw)).value)

IndexStep(shop, u) ==
    IF u \in DOMAIN shop.docs
    THEN IF shop.docs[u].indexes = <<>> THEN {Handler("done", <<>>, "")}
         ELSE {IndexEntry(Head(shop.docs[u].indexes))}
    ELSE {Handler("done", <<>>, "")} \cup
         IF shop.indexes > 0 THEN {IndexEntry(raw) : raw \in shop.indexLocs}
         ELSE {}

\* the same for the loop over $('url loc'); after the last leaf the loop
\* over the index entries begins
LeafEntry(raw) ==
    Handler(IF FilterSync(cleanup(raw)).hook THEN "leafHook" ELSE "leafAwait",
            cleanup(raw), FilterSync(cleanup(raw)).value)

\* a variant in which the loop over the leaves selects every <loc>, those
\* of <sitemap> entries too
LeafStepEveryLoc(shop, u) ==
    IF u \in DOMAIN shop.docs
    THEN IF shop.docs[u].leaves = <<>> THEN IndexStep(shop, u)
         ELSE {LeafEntry(Head(shop.docs[u].leaves))}
    ELSE IndexStep(shop, u) \cup
         IF shop.leaves > 0
         THEN {LeafEntry(raw) : raw \in shop.leafLocs \cup shop.indexLocs}
         ELSE {}

LeafStep(shop, u) ==
    IF u \in DOMAIN shop.docs
    THEN IF shop.docs[u].leaves = <<>> THEN IndexStep(shop, u)
         ELSE {LeafEntry(Head(shop.docs[u].leaves))}
    ELSE IndexStep(shop, u) \cup
         IF shop.leaves > 0 THEN {LeafEntry(raw) : raw \in shop.leafLocs}
         ELSE {}

\* the handler of u goes on with locals next, the queue being queue
Continue(u, next, queue) ==
    /\ IF next.pc = "done"
       THEN /\ running' = Remove(running, u)
            /\ rq' = MarkHandled(queue, u)
       ELSE /\ running' = [running EXCEPT ![u] = next]
            /\ rq' = queue
    /\ site' =
          IF u \in DOMAIN site.docs
          THEN [site EXCEPT
                  !.docs[u].leaves =
                      IF next.pc \in {"leafHook", "leafAwait"} THEN Tail(@) ELSE @,
                  !.docs[u].indexes =
                      IF next.pc \in {"idxHook", "idxAwait"} THEN Tail(@) ELSE @]
          ELSE [site EXCEPT
                  !.leaves = IF next.pc \in {"leafHook", "leafAwait"} THEN @ - 1 ELSE @,
                  !.indexes = IF next.pc \in {"idxHook", "idxAwait"} THEN @ - 1 ELSE @]

\* lines 133-144: the response arrives
SitemapFetched(u) ==
    /\ pc = "sitemaps"
    /\ u \in DOMAIN running
    /\ running[u].pc = "fetch"
    /\ \/ /\ \E next \in LeafStep(site, u) : Continue(u, next, rq)
          /\ lastEvent' = Event("parsed", "")
       \/ /\ site.failures > 0
          /\ site' = [site EXCEPT !.failures = @ - 1]
          /\ running' = Remove(running, u)
          /\ rq' = Reclaim(PushErrorMessage(rq, u, "Request failed"), u,
                           SitemapMaxRequestRetries)
          /\ lastEvent' = Event("fetchFailed", "")
    /\ UNCHANGED <<inputVars, dataset, startUrls, kv, pc, thrown, listening,
                   filteredSitemapUrls, baseUrl, hookCalls, sitemapUrls,
                   limit, rl, urls, requestList, fetched, idxAccepted,
                   idxRejected>>

\* index.js 162-176: the scraper hook runs with label FILTER_SITEMAP_URL
FilterHook(u) ==
    /\ pc = "sitemaps"
    /\ u \in DOMAIN running
    /\ running[u].pc \in {"leafHook", "idxHook"}
    /\ \E value \in HookOutcomes(cfg.extendScraperFunction) :
        running' = [running EXCEPT
            ![u].pc = IF @ = "leafHook" THEN "leafAwait" ELSE "idxAwait",
            ![u].value = value]
    /\ lastEvent' = Event("hook", "FILTER_SITEMAP_URL")
    /\ UNCHANGED <<inputVars, dataset, site, startUrls, kv, pc, thrown, listening,
                   filteredSitemapUrls, baseUrl, hookCalls, sitemapUrls,
                   limit, rl, rq, urls, requestList, fetched, idxAccepted,
                   idxRejected>>

\* The same evaluation followed call by call.
\* index.js 150-167: filter(url) runs up to the invocation of the hook
FilterCall ==
    /\ flt.pc = "call"
    /\ flt.url # <<>>
    /\ flt' = LET r == FilterSync(flt.url) IN
              IF r.hook
              THEN [flt EXCEPT !.pc = "hook", !.filtered = r.value, !.hooks = @ + 1]
              ELSE [flt EXCEPT !.pc = "returned", !.result = r.value]
    /\ UNCHANGED <<cfg, nSeeds, out, dataset, mapped, startUrls, kv, pc, thrown, listening,
                   filteredSitemapUrls, baseUrl, hookCalls, lastEvent,
                   sitemapVars, requestList>>

\* index.js 162-164: the hook calls filter(result)
FilterCalled ==
    /\ flt.pc = "hook"
    /\ cfg.extendScraperFunction = "valid"
    /\ Len(flt.calls) < MaxFilterCalls
    /\ \E result \in JsValues :
        flt' = [flt EXCEPT !.filtered = FilterCallback(@, result),
                           !.calls = Append(@, result)]
    /\ UNCHANGED <<cfg, nSeeds, out, dataset, mapped, startUrls, kv, pc, thrown, listening,
                   filteredSitemapUrls, baseUrl, hookCalls, lastEvent,
                   sitemapVars, requestList>>

\* index.js 176: the hook has returned
FilterReturn ==
    /\ flt.pc = "hook"
    /\ flt' = [flt EXCEPT !.pc = "returned", !.result = flt.filtered]
    /\ UNCHANGED <<cfg, nSeeds, out, dataset, mapped, startUrls, kv, pc, thrown, listening,
                   filteredSitemapUrls, baseUrl, hookCalls, lastEvent,
                   sitemapVars, requestList>>

\* line 148: if (await filter(url))
LeafAccepted(value) == Truthy(value)

\* a variant of the cap that lets one entry too many in
LimitedOffByOne(lim, size) ==
    IF JsGt(lim, Num(0)) THEN JsGt(Num(size), lim) ELSE FALSE

\* lines 149-151
Limited(lim, size) == IF JsGt(lim, Num(0)) THEN JsGe(Num(size), lim) ELSE FALSE

\* a variant in which the handler is suspended between the test of the cap
\* and urls.add: while another handler runs, the size it tested may be any
\* size the Set had before
LeafResumeStale(u) ==
    /\ pc = "sitemaps"
    /\ u \in DOMAIN running
    /\ running[u].pc = "leafAwait"
    /\ \E size \in IF Cardinality(DOMAIN running) > 1
                   THEN 0..Cardinality(urls) ELSE {Cardinality(urls)} :
        LET h == running[u]
            limited == Limited(limit, size)
        IN  IF LeafAccepted(h.value) /\ limited
            THEN /\ urls' = urls
                 /\ \E next \in IndexStep(site, u) : Continue(u, next, rq)
                 /\ lastEvent' = Event("leaf", "break")
            ELSE /\ urls' = IF LeafAccepted(h.value)
                            THEN SetAdd(urls, NewObject(urls, MapUrl(h.url, cfg.fetchHtml)))
                            ELSE urls
                 /\ \E next \in LeafStep(site, u) : Continue(u, next, rq)
                 /\ lastEvent' = Event("leaf", IF LeafAccepted(h.value) THEN "add" ELSE "reject")
    /\ UNCHANGED <<inputVars, dataset, startUrls, kv, pc, thrown, listening,
                   filteredSitemapUrls, baseUrl, hookCalls, sitemapUrls,
                   limit, rl, requestList, fetched, idxAccepted,
                   idxRejected>>

\* lines 148-159, then the next pass of a loop
LeafResume(u) ==
    /\ pc = "sitemaps"
    /\ u \in DOMAIN running
    /\ running[u].pc = "leafAwait"
    /\ LET h == running[u]
           limited == Limited(limit, Cardinality(urls))
       IN  IF LeafAccepted(h.value) /\ limited
           THEN /\ urls' = urls
                /\ \E next \in IndexStep(site, u) : Continue(u, next, rq)
                /\ lastEvent' = Event("leaf", "break")
           ELSE /\ urls' = IF LeafAccepted(h.value)
                           THEN SetAdd(urls, NewObject(urls, MapUrl(h.url, cfg.fetchHtml)))
                           ELSE urls
                /\ \E next \in LeafStep(site, u) : Continue(u, next, rq)
                /\ lastEvent' = Event("leaf", IF LeafAccepted(h.value) THEN "add" ELSE "reject")
    /\ UNCHANGED <<inputVars, dataset, startUrls, kv, pc, thrown, listening,
                   filteredSitemapUrls, baseUrl, hookCalls, sitemapUrls,
                   limit, rl, requestList, fetched, idxAccepted,
                   idxRejected>>

\* a variant that enqueues every <sitemap><loc> entry
IndexAcceptedAlways(value) == TRUE

\* a variant in which the index loop stops enqueueing once the cap is
\* reached
IndexAcceptedBelowCap(value) ==
    Truthy(value) /\ ~Limited(limit, Cardinality(urls))

\* line 165: if (await filter(url))
IndexAccepted(value) == Truthy(value)

\* lines 165-173, then the next pass of the loop; the resumption after
\* addRequest only counts the sitemap for the log line
IndexResume(u) ==
    /\ pc = "sitemaps"
    /\ u \in DOMAIN running
    /\ running[u].pc = "idxAwait"
    /\ LET h == running[u] IN
        /\ idxAccepted' = IF Truthy(h.value) THEN idxAccepted \cup {h.url}
                          ELSE idxAccepted
        /\ idxRejected' = IF Truthy(h.value) THEN idxRejected
                          ELSE idxRejected \cup {h.url}
        /\ \E next \in IndexStep(site, u) :
             Continue(u, next,
                      IF IndexAccepted(h.value) THEN AddRequest(rq, h.url, "") ELSE rq)
        /\ lastEvent' = Event("index", IF IndexAccepted(h.value) THEN "enqueue" ELSE "reject")
    /\ UNCHANGED <<inputVars, dataset, startUrls, kv, pc, thrown, listening,
                   filteredSitemapUrls, baseUrl, hookCalls, sitemapUrls,
                   limit, rl, urls, requestList, fetched>>

\* line 177: sitemapCrawler.run() resolves when nothing is left
SitemapsDrained ==
    /\ pc = "sitemaps"
    /\ rl = <<>>
    /\ Pending = {}
    /\ DOMAIN running = {}
    /\ pc' = "sitemapsDrained"
    /\ lastEvent' = Event("drained", "")
    /\ UNCHANGED <<inputVars, dataset, startUrls, kv, thrown, listening,
                   filteredSitemapUrls, baseUrl, hookCalls, sitemapVars,
                   requestList>>

\* the requests of Apify.openRequestList('STARTURLS', [...urls.values()])
RECURSIVE UniqueTargets(_, _)
UniqueTargets(sources, seen) ==
    IF sources = <<>> THEN <<>>
    ELSE IF Head(sources).url \in seen THEN UniqueTargets(Tail(sources), seen)
    ELSE <<Head(sources)>>
         \o UniqueTargets(Tail(sources), seen \cup {Head(sources).url})

\* [...urls.values()]: one entry per object of the Set
ValuesOf(set) == [k \in 1..Cardinality(set) |-> Values(set)[k].val]

\* fns.js 179-181 and index.js 192
SitemapsReturn ==
    /\ pc = "sitemapsDrained"
    /\ requestList' = UniqueTargets(ValuesOf(urls), {})
    /\ kv' = [kv EXCEPT !.STATS = Len(requestList')]
    /\ pc' = "run"
    /\ lastEvent' = Event("return", "")
    /\ UNCHANGED <<inputVars, dataset, startUrls, thrown, listening,
                   filteredSitemapUrls, baseUrl, hookCalls, sitemapVars>>


(***************************************************************************)
(* The product crawl (index.js 194-281).                                   *)
(***************************************************************************)
HookStep(label) ==
    /\ pc' = pc
    /\ lastEvent' = Event("hook", label)

RunHook ==
    /\ pc = "run"
    /\ hookCalls' = [hookCalls EXCEPT !.RUN = @ + 1]
    /\ pc' = "crawl"
    /\ lastEvent' = Event("hook", "RUN")
    /\ UNCHANGED <<inputVars, dataset, startUrls, kv, thrown, listening,
                   filteredSitemapUrls, baseUrl, sitemapVars, requestList>>

StartPage(u, queue) ==
    /\ Cardinality(DOMAIN running) < cfg.maxConcurrency
    /\ rq' = queue
    /\ running' = running @@ (u :> Handler("prenav", u, queue[u].label))
    /\ lastEvent' = Event("take", "")

CrawlTakeFromList ==
    /\ pc = "crawl"
    /\ requestList # <<>>
    /\ requestList' = Tail(requestList)
    /\ LET t == Head(requestList) IN
        IF t.url \in DOMAIN rq
        THEN /\ lastEvent' = Event("skip", "")
             /\ UNCHANGED <<rq, running>>
        ELSE StartPage(t.url, AddRequest(rq, t.url, t.userData.label))
    /\ UNCHANGED <<inputVars, dataset, site, startUrls, kv, pc, thrown, listening,
                   filteredSitemapUrls, baseUrl, hookCalls, sitemapUrls,
                   limit, rl, urls, fetched, idxAccepted, idxRejected>>

CrawlTakeFromQueue(u) ==
    /\ pc = "crawl"
    /\ u \in Pending
    /\ StartPage(u, rq)
    /\ UNCHANGED <<inputVars, dataset, site, startUrls, kv, pc, thrown, listening,
                   filteredSitemapUrls, baseUrl, hookCalls, sitemapUrls,
                   limit, rl, urls, requestList, fetched, idxAccepted,
                   idxRejected>>

\* lines 206-212
PreNavigation(u) ==
    /\ pc = "crawl"
    /\ u \in DOMAIN running
    /\ running[u].pc = "prenav"
    /\ running' = [running EXCEPT ![u].pc = "nav"]
    /\ HookStep("PRENAVIGATION")
    /\ UNCHANGED <<inputVars, dataset, site, startUrls, kv, thrown, listening,
                   filteredSitemapUrls, baseUrl, hookCalls, sitemapUrls,
                   limit, rl, rq, urls, requestList, fetched, idxAccepted,
                   idxRejected>>

\* a variant in which the record is pushed after every failed attempt
HandleFailedAttempt(queue, u, maxRetries) == <<FailedRecord(u)>>

\* index.js 262-268: handleFailedRequestFunction, called by the engine when
\* the request is given up
HandleFailedRequest(queue, u, maxRetries) ==
    IF queue[u].retryCount < maxRetries THEN <<>> ELSE <<FailedRecord(u)>>

\* an attempt at u fails after the values of pushed were handed to output()
PageThrew(u, message, pushed) ==
    /\ rq' = Reclaim(PushErrorMessage(rq, u, message), u, cfg.maxRequestRetries)
    /\ dataset' = dataset \o pushed
                     \o HandleFailedRequest(rq, u, cfg.maxRequestRetries)
    /\ lastEvent' = Event("pageThrew", message)

\* the page request ends: it failed, or lines 213-218 run
Navigated(u) ==
    /\ pc = "crawl"
    /\ u \in DOMAIN running
    /\ running[u].pc = "nav"
    /\ \/ /\ running' = [running EXCEPT ![u].pc = "handle"]
          /\ UNCHANGED <<rq, site, dataset>>
          /\ HookStep("POSTNAVIGATION")
       \/ /\ site.failures > 0
          /\ site' = [site EXCEPT !.failures = @ - 1]
          /\ running' = Remove(running, u)
          /\ PageThrew(u, "Request failed", <<>>)
          /\ pc' = pc
    /\ UNCHANGED <<inputVars, startUrls, kv, thrown, listening,
                   filteredSitemapUrls, baseUrl, hookCalls, sitemapUrls,
                   limit, rl, urls, requestList, fetched, idxAccepted,
                   idxRejected>>

\* extendOutputFunction(data) after it returned or rejected
Returned(data, log) ==
    [pc |-> IF Threw(log) THEN "threw" ELSE "returned",
     data |-> data,
     items |-> SubSeq(SplitMap(data), Len(log) + 1, Len(SplitMap(data))),
     log |-> log]

\* lines 219-261: handlePageFunction
HandlePage(u) ==
    /\ pc = "crawl"
    /\ u \in DOMAIN running
    /\ running[u].pc = "handle"
    /\ running' = Remove(running, u)
    /\ IF running[u].value = "HTML"
       THEN /\ rq' = MarkHandled(AddRequest(rq, u \o <<".json">>, "JSON"), u)
            /\ lastEvent' = Event("page", "HTML")
            /\ UNCHANGED <<dataset, out>>
       ELSE \E page \in site.pages :
            IF page.json = "null"
            THEN /\ PageThrew(u, "Cannot destructure property 'product'", <<>>)
                 /\ out' = out
            ELSE IF page.json = "empty" \/ page.product.title = ""
            THEN /\ PageThrew(u, "Missing product prop or title", <<>>)
                 /\ out' = out
            ELSE LET data == [product |-> page.product, url |-> StripJson(u)] IN
                 \E log \in PipelineRuns(cfg.extendOutputFunction, SplitMap(data)) :
                    /\ out' = Returned(data, log)
                    /\ IF Threw(log)
                       THEN PageThrew(u, "extendOutputFunction rejected", Emitted(log))
                       ELSE /\ rq' = MarkHandled(rq, u)
                            /\ dataset' = dataset \o Emitted(log)
                            /\ lastEvent' = Event("page", "JSON")
    /\ UNCHANGED <<cfg, nSeeds, flt, mapped, site, startUrls, kv, pc, thrown, listening,
                   filteredSitemapUrls, baseUrl, hookCalls, sitemapUrls,
                   limit, rl, urls, requestList, fetched, idxAccepted,
                   idxRejected>>

\* a variant in which run() resolves while page handlers are still at work
CrawlDrainedEarly ==
    /\ pc = "crawl"
    /\ requestList = <<>>
    /\ pc' = "finished"
    /\ lastEvent' = Event("drained", "")
    /\ UNCHANGED <<inputVars, dataset, startUrls, kv, thrown, listening,
                   filteredSitemapUrls, baseUrl, hookCalls, sitemapVars,
                   requestList>>

\* line 281: crawler.run() resolves
CrawlDrained ==
    /\ pc = "crawl"
    /\ requestList = <<>>
    /\ Pending = {}
    /\ DOMAIN running = {}
    /\ pc' = "finished"
    /\ lastEvent' = Event("drained", "")
    /\ UNCHANGED <<inputVars, dataset, startUrls, kv, thrown, listening,
                   filteredSitemapUrls, baseUrl, hookCalls, sitemapVars,
                   requestList>>

\* a variant in which the payload of FINISHED carries the Set, as the
\* payload of SETUP does
FinishedHookWithSet ==
    /\ pc = "finished"
    /\ hookCalls' = [hookCalls EXCEPT !.FINISHED = @ + 1]
    /\ filteredSitemapUrls' \in SetupEdits(cfg.extendScraperFunction, filteredSitemapUrls)
    /\ pc' = "persist"
    /\ lastEvent' = Event("hook", "FINISHED")
    /\ UNCHANGED <<inputVars, dataset, startUrls, kv, thrown, listening,
                   baseUrl, sitemapVars, requestList>>

\* lines 283-286
FinishedHook ==
    /\ pc = "finished"
    /\ hookCalls' = [hookCalls EXCEPT !.FINISHED = @ + 1]
    /\ pc' = "persist"
    /\ lastEvent' = Event("hook", "FINISHED")
    /\ UNCHANGED <<inputVars, dataset, startUrls, kv, thrown, listening,
                   filteredSitemapUrls, baseUrl, sitemapVars, requestList>>

\* lines 39-41, called at line 288
PersistState ==
    /\ pc = "persist"
    /\ kv' = [kv EXCEPT !.FILTERED = Values(filteredSitemapUrls)]
    /\ pc' = "done"
    /\ lastEvent' = Event("persist", "")
    /\ UNCHANGED <<inputVars, dataset, startUrls, thrown, listening,
                   filteredSitemapUrls, baseUrl, hookCalls, sitemapVars,
                   requestList>>

(***************************************************************************)
(* extendOutputFunction(data), step by step (fns.js 426-449).              *)
(***************************************************************************)
outputVars == <<cfg, nSeeds, flt, mapped, site, startUrls, kv, pc, thrown, listening,
                filteredSitemapUrls, baseUrl, hookCalls, sitemapUrls, limit,
                rl, rq, running, urls, requestList, fetched, idxAccepted,
                idxRejected>>

\* line 429: splitMap(data, merged)
OutputCall ==
    /\ out.pc = "call"
    /\ out.data # NoData
    /\ out' = [out EXCEPT !.pc = "loop", !.items = SplitMap(out.data)]
    /\ lastEvent' = Event("output", "call")
    /\ UNCHANGED <<outputVars, dataset>>

\* lines 430-447: the hook is called on the next item and every value of
\* its result but null is handed to output()
OutputItem ==
    /\ out.pc = "loop"
    /\ out.items # <<>>
    /\ \E r \in ItemRuns(cfg.extendOutputFunction, Head(out.items)) :
        /\ dataset' = dataset \o r.outputs
        /\ out' = [out EXCEPT
                     !.pc = IF r.threw THEN "threw" ELSE "loop",
                     !.items = Tail(@),
                     !.log = Append(@, r)]
    /\ lastEvent' = Event("output", "item")
    /\ UNCHANGED outputVars

\* line 449: the loop is over
OutputReturn ==
    /\ out.pc = "loop"
    /\ out.items = <<>>
    /\ out' = [out EXCEPT !.pc = "returned"]
    /\ lastEvent' = Event("output", "return")
    /\ UNCHANGED <<outputVars, dataset>>

(***************************************************************************)
(* Persistence of the Set across runs (index.js 37-44).                    *)
(***************************************************************************)
\* a variant in which the handler writes only while no request is in flight
PersistOnEventWhenIdle(name) ==
    /\ listening
    /\ pc \notin {"done", "failed"}
    /\ pc \notin {"robotsAwait"} /\ DOMAIN running = {}
    /\ kv' = [kv EXCEPT !.FILTERED = Values(filteredSitemapUrls)]
    /\ lastEvent' = Event("event", name)
    /\ UNCHANGED <<inputVars, dataset, startUrls, pc, thrown, listening,
                   filteredSitemapUrls, baseUrl, hookCalls, sitemapVars,
                   requestList>>

\* lines 43-44: the platform delivers 'aborting' or 'migrating' while the
\* run is at any of its await points; persistState runs at once
PersistOnEvent(name) ==
    /\ listening
    /\ pc \notin {"done", "failed"}
    /\ kv' = [kv EXCEPT !.FILTERED = Values(filteredSitemapUrls)]
    /\ lastEvent' = Event("event", name)
    /\ UNCHANGED <<inputVars, dataset, startUrls, pc, thrown, listening,
                   filteredSitemapUrls, baseUrl, hookCalls, sitemapVars,
                   requestList>>

\* [...set.entries()]: one [value, value] pair per member
Entries(set) == [k \in 1..Cardinality(set) |-> <<Values(set)[k], Values(set)[k]>>]

\* persistState as the CommonJS entry has it (unnamed/part_000 36-38)
PersistStateEntries ==
    /\ pc = "persist"
    /\ kv' = [kv EXCEPT !.FILTERED = Entries(filteredSitemapUrls)]
    /\ pc' = "done"
    /\ lastEvent' = Event("persist", "entries")
    /\ UNCHANGED <<inputVars, dataset, startUrls, thrown, listening,
                   filteredSitemapUrls, baseUrl, hookCalls, sitemapVars,
                   requestList>>

\* the actor is run again on the same key-value store
NextRun ==
    /\ pc = "done"
    /\ pc' = "start"
    /\ startUrls' \in {<<seed>> : seed \in {x \in SeedUrls : x.usable /\ x.search = <<>>}}
    /\ nSeeds' = 1
    /\ thrown' = "none"
    /\ listening' = FALSE
    /\ filteredSitemapUrls' = {}
    /\ baseUrl' = NoUrl
    /\ hookCalls' = [SETUP |-> 0, RUN |-> 0, FINISHED |-> 0]
    /\ lastEvent' = Event("nextRun", "")
    /\ UNCHANGED <<cfg, flt, out, dataset, mapped, kv, sitemapVars, requestList>>

Urls == DOMAIN rq

Next ==
    \/ Start
    \/ LoadState
    \/ RobotsRequest
    \/ RobotsResponse
    \/ RobotsDone
    \/ Compile
    \/ Setup
    \/ SitemapsOpen
    \/ SitemapTakeFromList
    \/ \E u \in Urls : SitemapTakeFromQueue(u)
    \/ \E u \in Urls : SitemapFetched(u)
    \/ \E u \in Urls : FilterHook(u)
    \/ \E u \in Urls : LeafResume(u)
    \/ \E u \in Urls : IndexResume(u)
    \/ SitemapsDrained
    \/ SitemapsReturn
    \/ RunHook
    \/ CrawlTakeFromList
    \/ \E u \in Urls : CrawlTakeFromQueue(u)
    \/ \E u \in Urls : PreNavigation(u)
    \/ \E u \in Urls : Navigated(u)
    \/ \E u \in Urls : HandlePage(u)
    \/ CrawlDrained
    \/ FinishedHook
    \/ PersistState

Spec == Init /\ [][Next]_vars

\* checkForRobots alone
NextRobots ==
    \/ Start
    \/ LoadState
    \/ RobotsRequest
    \/ RobotsResponse
    \/ RobotsDone

SpecRobots == InitRobots /\ [][NextRobots]_vars

\* the whole run on the listed shop
SpecEndToEnd == InitEndToEnd /\ [][Next]_vars

\* requestListFromSitemaps alone
NextSitemaps ==
    \/ SitemapsOpen
    \/ SitemapTakeFromList
    \/ \E u \in Urls : SitemapTakeFromQueue(u)
    \/ \E u \in Urls : SitemapFetched(u)
    \/ \E u \in Urls : FilterHook(u)
    \/ \E u \in Urls : LeafResume(u)
    \/ \E u \in Urls : IndexResume(u)
    \/ SitemapsDrained
    \/ SitemapsReturn

SpecSitemaps == InitSitemaps /\ [][NextSitemaps]_vars

\* The traversal of a finite tree of sitemaps: the root lists a product
\* sitemap and a pages sitemap, the product sitemap lists three products.
\* The engine runs a step whenever one can be taken, and a fetch fails
\* while the budget of failures lasts.
SitemapTree ==
    (Root :> Document(<<>>, <<Sp1, Pages>>))
        @@ (Sp1 :> Document(<<PA, PaddedPA, PB>>, <<>>))

InitTermination ==
    /\ cfg \in [maxConcurrency : 1..MaxConcurrency,
                maxRequestsPerCrawl : Limits,
                fetchHtml : {FALSE},
                extendScraperFunction : {"blank", "valid"},
                extendOutputFunction : {"blank"},
                maxRequestRetries : {DefaultMaxRequestRetries}]
    /\ site = [Site(0, 0, MaxFetchFailures, {}, {}) EXCEPT !.docs = SitemapTree]
    /\ startUrls = <<>>
    /\ nSeeds = 1
    /\ kv = [FILTERED |-> <<>>, STATS |-> -1]
    /\ pc = "sitemapsOpen"
    /\ thrown = "none"
    /\ listening = TRUE
    /\ filteredSitemapUrls = {Root}
    /\ baseUrl = NoUrl
    /\ hookCalls = [SETUP |-> 1, RUN |-> 0, FINISHED |-> 0]
    /\ lastEvent = Event("hook", "SETUP")
    /\ flt = FilterEntered(<<>>)
    /\ out = OutputEntered(NoData)
    /\ mapped = NotMapping
    /\ Idle

SpecTermination ==
    InitTermination /\ [][NextSitemaps]_vars /\ WF_vars(NextSitemaps)

\* The traversal of sitemaps that list each other: the product sitemap
\* lists itself and a second index, which lists the product sitemap (its
\* ancestor) and itself.  The filter accepts both entries.
SitemapCycle ==
    (Root :> Document(<<>>, <<Sp1>>))
        @@ (Sp1 :> Document(<<PA>>, <<Sp1, ProdIdx>>))
        @@ (ProdIdx :> Document(<<PB>>, <<Sp1, ProdIdx, Pages>>))

InitCycle ==
    /\ cfg \in [maxConcurrency : 1..MaxConcurrency,
                maxRequestsPerCrawl : Limits,
                fetchHtml : {FALSE},
                extendScraperFunction : {"blank", "valid"},
                extendOutputFunction : {"blank"},
                maxRequestRetries : {DefaultMaxRequestRetries}]
    /\ site = [Site(0, 0, MaxFailures, {}, {}) EXCEPT !.docs = SitemapCycle]
    /\ startUrls = <<>>
    /\ nSeeds = 1
    /\ kv = [FILTERED |-> <<>>, STATS |-> -1]
    /\ pc = "sitemapsOpen"
    /\ thrown = "none"
    /\ listening = TRUE
    /\ filteredSitemapUrls = {Root}
    /\ baseUrl = NoUrl
    /\ hookCalls = [SETUP |-> 1, RUN |-> 0, FINISHED |-> 0]
    /\ lastEvent = Event("hook", "SETUP")
    /\ flt = FilterEntered(<<>>)
    /\ out = OutputEntered(NoData)
    /\ mapped = NotMapping
    /\ Idle

SpecCycle == InitCycle /\ [][NextSitemaps]_vars /\ WF_vars(NextSitemaps)

\* The traversal of sitemaps that hold leaves and index entries alike: the
\* root lists two products and then the product sitemap, which lists a
\* product and a further index, which lists a product and a sitemap of
\* pages.
SitemapChain ==
    (Root :> Document(<<PA, PB>>, <<Sp1>>))
        @@ (Sp1 :> Document(<<PB>>, <<Pages, ProdIdx>>))
        @@ (ProdIdx :> Document(<<PC>>, <<>>))

InitChain ==
    /\ cfg \in [maxConcurrency : 1..MaxConcurrency,
                maxRequestsPerCrawl : Limits,
                fetchHtml : {FALSE},
                extendScraperFunction : {"blank", "valid"},
                extendOutputFunction : {"blank"},
                maxRequestRetries : {DefaultMaxRequestRetries}]
    /\ site = [Site(0, 0, MaxFailures, {}, {}) EXCEPT !.docs = SitemapChain]
    /\ startUrls = <<>>
    /\ nSeeds = 1
    /\ kv = [FILTERED |-> <<>>, STATS |-> -1]
    /\ pc = "sitemapsOpen"
    /\ thrown = "none"
    /\ listening = TRUE
    /\ filteredSitemapUrls = {Root}
    /\ baseUrl = NoUrl
    /\ hookCalls = [SETUP |-> 1, RUN |-> 0, FINISHED |-> 0]
    /\ lastEvent = Event("hook", "SETUP")
    /\ flt = FilterEntered(<<>>)
    /\ out = OutputEntered(NoData)
    /\ mapped = NotMapping
    /\ Idle

SpecChain == InitChain /\ [][NextSitemaps]_vars /\ WF_vars(NextSitemaps)

\* one evaluation of filter(url)
NextFilter ==
    \/ FilterCall
    \/ FilterCalled
    \/ FilterReturn

SpecFilter == InitFilter /\ [][NextFilter]_vars

\* the product crawl alone, from RUN to the end of the run; the engine
\* starts a request whenever one is waiting and a slot is free, and every
\* step that is enabled is eventually taken
NextCrawl ==
    \/ RunHook
    \/ CrawlTakeFromList
    \/ \E u \in Urls : CrawlTakeFromQueue(u)
    \/ \E u \in Urls : PreNavigation(u)
    \/ \E u \in Urls : Navigated(u)
    \/ \E u \in Urls : HandlePage(u)
    \/ CrawlDrained
    \/ FinishedHook
    \/ PersistState

SpecCrawl == InitCrawl /\ [][NextCrawl]_vars /\ WF_vars(NextCrawl)

\* a run with the events of the platform
NextEvents ==
    \/ Next
    \/ \E name \in {"aborting", "migrating"} : PersistOnEvent(name)

SpecEvents == InitEvents /\ [][NextEvents]_vars

\* the end of a run under either entry, and the start of the next run
NextRoundTrip ==
    \/ PersistState
    \/ PersistStateEntries
    \/ NextRun
    \/ Start
    \/ LoadState
    \/ RobotsRequest
    \/ RobotsResponse
    \/ RobotsDone

SpecRoundTrip == InitRoundTrip /\ [][NextRoundTrip]_vars

\* one call of extendOutputFunction alone
NextOutput ==
    \/ OutputCall
    \/ OutputItem
    \/ OutputReturn

SpecOutput == InitOutput /\ [][NextOutput]_vars

(***************************************************************************)
(* map() on one variant (index.js 66-117), with the locals the page        *)
(* handler passes in (index.js 248-252).                                   *)
(***************************************************************************)
InitRecord ==
    /\ cfg \in [maxConcurrency : {1},
                maxRequestsPerCrawl : {[given |-> FALSE, n |-> 0]},
                fetchHtml : {FALSE},
                extendScraperFunction : {"blank"},
                extendOutputFunction : {"blank"},
                maxRequestRetries : {DefaultMaxRequestRetries}]
    /\ site = Site(0, 0, 0, {}, {})
    /\ startUrls = <<>>
    /\ nSeeds = 1
    /\ kv = [FILTERED |-> <<>>, STATS |-> -1]
    /\ pc = "crawl"
    /\ thrown = "none"
    /\ listening = TRUE
    /\ filteredSitemapUrls = {}
    /\ baseUrl = NoUrl
    /\ hookCalls = [SETUP |-> 1, RUN |-> 1, FINISHED |-> 0]
    /\ lastEvent = Event("hook", "POSTNAVIGATION")
    /\ flt = FilterEntered(<<>>)
    /\ out = OutputEntered(NoData)
    /\ mapped \in {MapEntered(input[1], input[2]) : input \in MapInputs}
    /\ Idle

MapVariant ==
    /\ mapped.pc = "call"
    /\ LET product == mapped.product
           variant == mapped.variant
           images == MapIdsFromArray(product.images \o <<product.image>>)
           attributes == GetVariantAttributes(variant, product)
       IN  mapped' = [mapped EXCEPT
                !.pc = "returned",
                !.attributes = attributes,
                !.record = VariantFields(product, variant, images,
                                         ImagesWithoutVariants(product),
                                         attributes.props, attributes.name)]
    /\ UNCHANGED <<cfg, nSeeds, flt, out, dataset, startUrls, kv, pc, thrown,
                   listening, filteredSitemapUrls, baseUrl, hookCalls,
                   lastEvent, sitemapVars, requestList>>

NextRecord == MapVariant

SpecRecord == InitRecord /\ [][NextRecord]_vars


(***************************************************************************)
(* Properties of checkForRobots (SpecRobots).                              *)
(***************************************************************************)
\* C9: checkForRobots visits every seed: a failure while resolving a seed
\* (its URL is unusable, or the request or one of the checks of the
\* response fails) adds nothing to the Set, does not reach the caller and
\* does not keep the later seeds from being resolved.
C9_SeedFailuresAreSkipped ==
    [][/\ (pc = "robots" /\ startUrls # <<>>)
            => (pc' = "robotsAwait" /\ thrown' = "none")
       /\ pc = "robotsAwait"
            => /\ pc' = "robots"
               /\ thrown' = "none"
               /\ lastEvent'.detail # "none"
                    => filteredSitemapUrls' = filteredSitemapUrls]_vars

\* C10: the URL requested for robots discovery is the seed's origin plus
\* /robots.txt and carries no query parameter, whatever the seed carries.
C10_RobotsUrlHasNoQuery ==
    pc = "robotsAwait"
        => /\ baseUrl.origin = Origin
           /\ baseUrl.pathname = "/robots.txt"
           /\ baseUrl.search = <<>>

(***************************************************************************)
(* Properties of requestListFromSitemaps (SpecSitemaps).                   *)
(***************************************************************************)
\* C1: once requestListFromSitemaps has drained, the result Set holds at
\* most one entry per URL: adding map(url) for a leaf accepted before, from
\* the same document or from another, leaves the Set as it was.
C1_OneEntryPerUrl ==
    pc \in {"sitemapsDrained", "run"}
        => \A o1, o2 \in urls : o1.val.url = o2.val.url => o1 = o2

\* C2: a <sitemap><loc> entry the filter rejects never has its URL enqueued
\* or fetched, the document is never enumerated and the URL never enters
\* the result Set, unless the URL is a root of the traversal (or an entry
\* the filter accepted on another occasion).
C2_RejectedIndexIsNeverFetched ==
    \A url \in idxRejected \ (idxAccepted \cup Range(sitemapUrls)) :
        /\ url \notin DOMAIN rq
        /\ url \notin fetched
        /\ url \notin DOMAIN running
        /\ \A o \in urls : o.val.userData.url # url

C2_Witness ==
    /\ pc = "run"
    /\ ProdIdx \in idxRejected \ idxAccepted
    /\ Pages \in idxRejected
    /\ fetched = {Root}

\* C3: with a cap > 0, a handler that meets an accepted leaf while the
\* result Set holds cap entries adds nothing and leaves the loop over the
\* leaves of its document for good; without a cap (0 or NaN) every accepted
\* leaf is added.
C3_AfterLeaf(u) ==
    LET h == running[u]
        capped == ~limit.nan /\ limit.n > 0
        full == Cardinality(urls) >= limit.n
    IN  /\ (Truthy(h.value) /\ capped /\ full)
            => /\ urls' = urls
               /\ u \in DOMAIN running'
                    => running'[u].pc \notin {"leafHook", "leafAwait"}
        /\ (Truthy(h.value) /\ ~(capped /\ full))
            => \E o \in urls' \ urls :
                  /\ urls' = urls \cup {o}
                  /\ o.val.userData.url = h.url
        /\ ~Truthy(h.value) => urls' = urls

C4_FilterDecision ==
    /\ flt.hooks <= 1
    /\ flt.pc = "hook" => flt.hooks = 1
    /\ flt.pc = "returned" =>
         IF \E d \in Digits : Includes(flt.url, <<"sitemap_products_", d>>)
         THEN flt.result = "true" /\ flt.hooks = 0
         ELSE IF ~Includes(flt.url, <<"/", "products", "/">>)
         THEN flt.result = "false" /\ flt.hooks = 0
         ELSE flt.hooks = 1 /\ flt.result = flt.filtered

C4_Witness ==
    /\ flt.pc = "returned"
    /\ flt.hooks = 1
    /\ flt.calls = <<"1", "undefined">>
    /\ flt.result = "undefined"

\* C5: the URL is accepted when the hook never calls filter, and otherwise
\* exactly when every value passed to filter is truthy: a falsy value is
\* never undone by a later call, and the order of the calls does not matter.
C5_Reordered(calls) ==
    {[i \in 1..Len(calls) |-> calls[p[i]]] : p \in Permutations(1..Len(calls))}

C5_DecisionIsAndOfCalls ==
    /\ flt.pc = "hook" =>
         ((\E i \in 1..Len(flt.calls) : ~Truthy(flt.calls[i]))
              => ~Truthy(flt.filtered))
    /\ (flt.pc = "returned" /\ flt.hooks = 1) =>
         /\ flt.calls = <<>> => flt.result = "true"
         /\ Truthy(flt.result) = (\A i \in 1..Len(flt.calls) : Truthy(flt.calls[i]))
         /\ \A calls \in C5_Reordered(flt.calls) :
              Truthy(HookFilterCalls("true", calls)) = Truthy(flt.result)

C5_Witness ==
    /\ flt.pc = "returned"
    /\ Len(flt.calls) = 3
    /\ ~Truthy(flt.calls[1])
    /\ Truthy(flt.calls[2])
    /\ Truthy(flt.calls[3])
    /\ ~Truthy(flt.result)

(***************************************************************************)
(* Properties of a whole run (SpecEndToEnd, Spec).                         *)
(***************************************************************************)
\* C6: without hooks and without a cap, when robots.txt yields the root
\* sitemap, the root lists a product sitemap and an unrelated one, and the
\* product sitemap lists three distinct /products/ leaves: only the root
\* and the product sitemap are fetched and the target list holds three
\* targets, one per leaf.
C6_ThreeLeavesThreeTargets ==
    /\ Pages \notin fetched
    /\ Pages \notin DOMAIN rq
    /\ (pc = "run" /\ Root \in filteredSitemapUrls) =>
         /\ fetched = {Root, Sp1}
         /\ Len(requestList) = 3
         /\ {requestList[i].userData.url : i \in 1..Len(requestList)} = {PA, PB, PC}
         /\ \A i \in 1..Len(requestList) :
              requestList[i].url =
                  IF cfg.fetchHtml THEN requestList[i].userData.url
                  ELSE requestList[i].userData.url \o <<".json">>
         /\ kv.STATS = 3

C6_Witness ==
    /\ pc = "run"
    /\ Len(requestList) = 3
    /\ fetched = {Root, Sp1}
    /\ idxRejected = {Pages}
    /\ idxAccepted = {Sp1}

\* C7: in a run that completes the hook runs with SETUP once, after every
\* seed has been resolved and before any sitemap is fetched; with RUN once,
\* after the traversal and before the product crawl; with FINISHED once,
\* after the crawl has ended.  FILTER_SITEMAP_URL runs only between SETUP
\* and RUN, PRENAVIGATION and POSTNAVIGATION only between RUN and FINISHED,
\* and the Set is persisted after FINISHED.
C7_HookOrder ==
    /\ hookCalls.SETUP <= 1 /\ hookCalls.RUN <= 1 /\ hookCalls.FINISHED <= 1
    /\ pc = "done" => hookCalls = [SETUP |-> 1, RUN |-> 1, FINISHED |-> 1]
    /\ hookCalls.SETUP = 0 => fetched = {} /\ DOMAIN rq = {}
    /\ hookCalls.SETUP = 1 => startUrls = <<>> /\ baseUrl = NoUrl
    /\ hookCalls.RUN = 0 =>
         /\ pc \notin {"crawl", "finished", "persist", "done"}
         /\ lastEvent.kind \notin {"take", "page", "pageThrew"}
         /\ lastEvent.detail \notin {"PRENAVIGATION", "POSTNAVIGATION"}
    /\ hookCalls.RUN = 1 =>
         /\ hookCalls.SETUP = 1
         /\ pc \in {"crawl", "finished", "persist", "done"}
         /\ lastEvent # Event("hook", "FILTER_SITEMAP_URL")
    /\ hookCalls.FINISHED = 0 => pc \notin {"persist", "done"}
    /\ hookCalls.FINISHED = 1 =>
         /\ hookCalls.RUN = 1
         /\ pc \in {"persist", "done"}
         /\ DOMAIN running = {}
         /\ lastEvent.detail \notin {"PRENAVIGATION", "POSTNAVIGATION"}
    /\ lastEvent = Event("hook", "FILTER_SITEMAP_URL") => hookCalls.SETUP = 1
    /\ lastEvent.kind = "persist" => hookCalls.FINISHED = 1

C7_Witness ==
    /\ pc = "done"
    /\ fetched # {}
    /\ \E u \in DOMAIN rq : rq[u].label = "JSON" /\ rq[u].handled

\* C8: the roots of the traversal are the members the Set has when the
\* SETUP hook returns: a URL the hook added is traversed as a root, a URL it
\* deleted is not.
C8_RootsAreTheSetAfterSetup ==
    /\ (hookCalls.SETUP = 1 /\ pc # "sitemapsOpen")
         => Range(sitemapUrls) = filteredSitemapUrls
    /\ pc = "sitemapsDrained" =>
         /\ filteredSitemapUrls \subseteq fetched
         /\ fetched \subseteq filteredSitemapUrls \cup idxAccepted

C8_Witness ==
    /\ pc = "sitemapsDrained"
    /\ kv.FILTERED = <<Root>>
    /\ filteredSitemapUrls = {Secret}
    /\ fetched = {Secret}

(***************************************************************************)
(* The output pipeline.                                                    *)
(***************************************************************************)
IsObject(value) == value.type = "object"

\* C11: for one candidate record, a hook that returns an array of two
\* records has output() called exactly twice, with the two records in order;
\* a hook that returns null has it called not at all; a hook that returns
\* the item has it called exactly once, with the item.  Nothing else reaches
\* the dataset.
C11_EmitsPerResult ==
    /\ \A i \in 1..Len(out.log) :
         LET e == out.log[i] IN
         /\ (e.result.type = "array" /\ Len(e.result.elems) = 2
                /\ \A k \in 1..2 : IsObject(e.result.elems[k]))
              => e.outputs = e.result.elems /\ ~e.threw
         /\ e.result.type = "null" => e.outputs = <<>> /\ ~e.threw
         /\ e.result = e.item => e.outputs = <<e.item>> /\ ~e.threw
    /\ dataset = Emitted(out.log)

C11_Witness ==
    /\ out.pc = "returned"
    /\ Len(out.log) = 2
    /\ out.log[1].result.type = "array" /\ Len(out.log[1].outputs) = 2
    /\ out.log[2].result.type = "null"
    /\ Len(dataset) = 2

\* C12: a hook that returns nothing (undefined) suppresses the candidate
\* exactly as null does: output() is not called for it.
C12_UndefinedIsSuppressed ==
    \A i \in 1..Len(out.log) :
        out.log[i].result.type = "undefined" => out.log[i].outputs = <<>>

\* C13: without an output hook a product with n variants has output()
\* called exactly n times, the i-th time with the record built for the i-th
\* variant.
C13_OneRecordPerVariant ==
    (cfg.extendOutputFunction = "blank" /\ out.pc = "returned") =>
        LET variants == out.data.product.variants IN
        /\ Len(dataset) = Len(variants)
        /\ \A i \in 1..Len(variants) :
             dataset[i] = JsObject(CanonicalRecord(out.data.product, variants[i],
                                                   out.data.url))

C13_Witness ==
    /\ cfg.extendOutputFunction = "blank"
    /\ out.pc = "returned"
    /\ Len(out.data.product.variants) = 2
    /\ out.data.product.variants[1] # out.data.product.variants[2]
    /\ Len(dataset) = 2

(***************************************************************************)
(* The run: compilation of the hooks, input, persisted state.              *)
(***************************************************************************)
NotAFunction ==
    {"\"extendOutputFunction\" parameter must be a function",
     "\"extendScraperFunction\" parameter must be a function"}

\* C14: when the code of extendOutputFunction or of extendScraperFunction
\* is not blank and does not compile, the run fails at the compilation of
\* the hooks: no hook is called (not even SETUP), no sitemap and no product
\* target is requested, and nothing is emitted.
C14_InvalidHookAborts ==
    ("invalid" \in {cfg.extendOutputFunction, cfg.extendScraperFunction}) =>
        /\ hookCalls = [SETUP |-> 0, RUN |-> 0, FINISHED |-> 0]
        /\ lastEvent.kind # "hook"
        /\ fetched = {}
        /\ rq = NoRequests /\ running = NoRequests /\ rl = <<>>
        /\ requestList = <<>>
        /\ dataset = <<>>
        /\ pc \in {"start", "loadState", "robots", "robotsAwait", "compile", "failed"}
        /\ lastEvent.kind = "compile" => pc = "failed" /\ thrown \in NotAFunction

C14_Witness ==
    /\ pc = "failed"
    /\ cfg.extendOutputFunction = "blank"
    /\ thrown = "\"extendScraperFunction\" parameter must be a function"
    /\ filteredSitemapUrls # {}

\* what has happened when only lines 10-32 of entry() have run
OnlyStarted ==
    /\ pc \in {"start", "failed"}
    /\ lastEvent.kind \in {"none", "start"}
    /\ baseUrl = NoUrl
    /\ hookCalls = [SETUP |-> 0, RUN |-> 0, FINISHED |-> 0]
    /\ ~listening
    /\ kv.STATS = -1 /\ kv.FILTERED \in PersistedFiltered
    /\ filteredSitemapUrls = {}

\* C15 as stated: with startUrls missing or empty the run fails with
\* 'Missing "startUrls" input', whatever else the input holds.
C15_AlwaysMissingStartUrls ==
    (nSeeds = 0 /\ pc = "failed") => thrown = "Missing \"startUrls\" input"

\* C15: with startUrls missing or empty the run fails before robots.txt is
\* requested, before a hook is compiled or called, before the handler of
\* aborting/migrating is registered and before anything is persisted; the
\* error is 'Missing "startUrls" input' when the proxy configuration was
\* accepted, and the error of the proxy configuration otherwise.
C15_EmptyStartUrlsFailFirst ==
    nSeeds = 0 =>
        /\ OnlyStarted
        /\ pc = "failed" =>
             thrown = IF lastEvent.detail = "proxy accepted"
                      THEN "Missing \"startUrls\" input"
                      ELSE "You must use Apify proxy or custom proxy URLs"

C15_Witness ==
    /\ nSeeds = 0
    /\ pc = "failed"
    /\ thrown = "Missing \"startUrls\" input"
    /\ kv.FILTERED # <<>>

(***************************************************************************)
(* The product crawl.                                                      *)
(***************************************************************************)
Count(x, seq) == Cardinality({i \in 1..Len(seq) : seq[i] = x})

\* the engine gave the request up: every attempt failed
GivenUp(u) == rq[u].handled /\ Len(rq[u].errorMessages) > cfg.maxRequestRetries

CrawlOver == pc \in {"finished", "persist", "done"}

\* the run was not aborted and, once the crawl is over, every target was
\* processed
RunGoesOn ==
    /\ thrown = "none"
    /\ pc \in {"run", "crawl", "finished", "persist", "done"}
    /\ CrawlOver =>
         /\ requestList = <<>>
         /\ Cardinality(DOMAIN rq) = kv.STATS
         /\ \A u \in DOMAIN rq : rq[u].handled

C18_FailureRecords ==
    /\ \A u \in DOMAIN rq :
         /\ Len(rq[u].errorMessages) <= cfg.maxRequestRetries + 1
         /\ Count(FailedRecord(u), dataset) = IF GivenUp(u) THEN 1 ELSE 0
    /\ RunGoesOn

\* C18: a crawl target whose every attempt fails until maxRequestRetries is
\* exhausted has exactly one '#failed' record emitted; the run is not
\* aborted, the remaining targets are processed and FINISHED is reached.
C18_GivenUpOnceAndRunFinishes ==
    /\ []C18_FailureRecords
    /\ (\E u \in DOMAIN rq : GivenUp(u)) ~> (hookCalls.FINISHED = 1)

C18_Witness ==
    /\ pc = "done"
    /\ cfg.maxRequestRetries = MaxRetries
    /\ \E u, v \in DOMAIN rq :
         /\ GivenUp(u)
         /\ rq[u].retryCount = MaxRetries
         /\ rq[v].errorMessages = <<>>
         /\ Len(dataset) = 2

AllNotFound == \A page \in site.pages : page.statusCode = 404

\* C19: a JSON target that carries no product title is skipped silently
\* when its status is 404 (no record, not failed, not retried); otherwise
\* the handler raises 'Missing product prop or title'.
C19_NotFoundIsSkipped ==
    AllNotFound =>
        /\ lastEvent.kind = "pageThrew" => lastEvent.detail = "Request failed"
        /\ \A u \in DOMAIN rq : Count(FailedRecord(u), dataset) = 0

C20_HookExceptions ==
    /\ \A i \in 1..(Len(out.log) - 1) : ~out.log[i].threw
    /\ out.pc = "threw" =>
         /\ out.log[Len(out.log)].result = JsThrow
         /\ Len(out.log) + Len(out.items) = Len(out.data.product.variants)
    /\ lastEvent = Event("pageThrew", "extendOutputFunction rejected") =>
         /\ out.pc = "threw"
         /\ \E failed \in {<<>>} \cup {<<FailedRecord(u)>> : u \in DOMAIN rq} :
              \E before \in {SubSeq(dataset, 1, n) : n \in 0..Len(dataset)} :
                 dataset = before \o Emitted(out.log) \o failed
    /\ RunGoesOn

\* C20: an exception thrown by the output hook fails only the request of
\* that record: in that attempt no later variant is passed to the hook or
\* emitted; the run is not aborted, the other targets are processed and
\* FINISHED is reached.
C20_HookExceptionFailsOneRequest ==
    /\ []C20_HookExceptions
    /\ (out.pc = "threw") ~> (hookCalls.FINISHED = 1)

C20_Witness ==
    /\ pc = "done"
    /\ out.pc = "threw"
    /\ Len(out.log) = 1
    /\ Len(out.items) = 1
    /\ \E u, v \in DOMAIN rq :
         /\ GivenUp(u)
         /\ rq[v].errorMessages = <<>>
         /\ Len(dataset) = 3

(***************************************************************************)
(* Persistence of the Set.                                                 *)
(***************************************************************************)
\* C16: whenever 'aborting' or 'migrating' is delivered during the run
\* (robots discovery, SETUP, traversal, crawl), FILTERED is written with
\* exactly the members the Set has at that moment, without waiting for the
\* requests in flight.
C16_EventPersistsTheSet ==
    /\ lastEvent.kind = "event" =>
         /\ Range(kv.FILTERED) = filteredSitemapUrls
         /\ Len(kv.FILTERED) = Cardinality(filteredSitemapUrls)
    /\ (listening /\ pc \notin {"done", "failed"}) =>
         ENABLED PersistOnEvent("aborting") /\ ENABLED PersistOnEvent("migrating")

C16_Witness ==
    /\ lastEvent.kind = "event"
    /\ pc = "sitemaps"
    /\ DOMAIN running # {}
    /\ Secret \in filteredSitemapUrls
    /\ Root \notin filteredSitemapUrls
    /\ kv.FILTERED # <<>>

\* C17: the value written under FILTERED, loaded by new Set(...) at the
\* start of the next run, gives exactly the URLs that were persisted.
C17_RoundTrip ==
    [][(pc = "persist" /\ pc' = "done") => Range(kv'.FILTERED) = filteredSitemapUrls]_vars

(***************************************************************************)
(* The fields of a record.                                                 *)
(***************************************************************************)
\* map() has returned the record of the variant that was followed
Mapped == mapped.pc = "returned"

\* C21: availability is 'in stock' for a positive resolved stock count and
\* 'out of stock' for a stock count of 0, whatever the sale flag; without a
\* resolvable stock count it is 'in stock' when the sale flag is true and
\* 'out of stock' when the flag is false or absent; it has no other value.
C21_AvailabilityRule ==
    Mapped =>
        LET q == mapped.variant.inventory_quantity
            sale == mapped.variant.available
            availability == mapped.record.availability
        IN  /\ availability \in {"in stock", "out of stock"}
            /\ q.kind = "number" /\ q.n > 0 => availability = "in stock"
            /\ q.kind = "number" /\ q.n = 0 => availability = "out of stock"
            /\ q.kind # "number" /\ sale = "true" => availability = "in stock"
            /\ q.kind # "number" /\ sale # "true" => availability = "out of stock"

\* the sources of images_urls for the variant that was followed, query
\* strings stripped: the image its image_id names, the images of the
\* product no variant is linked to, the product's default image
LinkedImages ==
    {RemoveUrlQueryString(image.src) :
        image \in {x \in Range(mapped.product.images) \cup {mapped.product.image} :
                      x # NoImage /\ x.id = mapped.variant.image_id}} \ {<<>>}
UnlinkedImages ==
    {RemoveUrlQueryString(image.src) :
        image \in {x \in Range(mapped.product.images) : x.variant_ids = <<>>}} \ {<<>>}
DefaultImages == {RemoveUrlQueryString(mapped.product.image.src)} \ {<<>>}

\* every entry is free of a query string and not empty, and no entry is
\* there twice
CleanImages ==
    LET images_urls == mapped.record.images_urls
    IN  /\ \A i \in 1..Len(images_urls) :
              images_urls[i] # <<>> /\ "?" \notin Range(images_urls[i])
        /\ \A i, j \in 1..Len(images_urls) : images_urls[i] = images_urls[j] => i = j

\* C22 as stated: image resolution is a fallback chain.  The linked image
\* is used when the variant's image_id is linked; the unlinked product
\* images are used only when there is no linked image; the product's
\* default image only when there is neither; query strings are stripped,
\* duplicates removed and no entry is empty.
C22_FallbackChain ==
    Mapped =>
        LET used == Range(mapped.record.images_urls)
        IN  /\ CleanImages
            /\ LinkedImages # {} => used = LinkedImages
            /\ LinkedImages = {} /\ UnlinkedImages # {} => used = UnlinkedImages
            /\ LinkedImages = {} /\ UnlinkedImages = {} => used = DefaultImages

\* C22: images_urls lists all three sources in priority order: the linked
\* image first, then the unlinked product images, then the product's
\* default image; query strings are stripped, a URL that comes again is
\* dropped, and no entry is empty.
C22_ImagesInPriorityOrder ==
    Mapped =>
        LET images_urls == mapped.record.images_urls
            rank(u) == IF u \in LinkedImages THEN 1
                       ELSE IF u \in UnlinkedImages THEN 2 ELSE 3
        IN  /\ CleanImages
            /\ Range(images_urls) = LinkedImages \cup UnlinkedImages \cup DefaultImages
            /\ \A i, j \in 1..Len(images_urls) :
                  i < j => rank(images_urls[i]) <= rank(images_urls[j])

\* a variant with a linked image, an unlinked image and another default
\* image has been mapped
C22_Witness ==
    /\ Mapped
    /\ LinkedImages # {}
    /\ Len(mapped.record.images_urls) = 3
    /\ mapped.record.images_urls[1] \in LinkedImages

\* the first declared option of the product that was followed matches the
\* default/title sentinel, in any letter case
FirstOptionIsSentinel ==
    /\ mapped.product.options # <<>>
    /\ \/ Includes(ToLowerCase(mapped.product.options[1].name), <<"title">>)
       \/ Includes(ToLowerCase(mapped.product.options[1].name), <<"default">>)

\* C23: when the first option name of the product is the default/title
\* sentinel, in any letter case, the variant's name is 'Default' and its
\* props are empty, whatever option1..option3 hold.
C23_SentinelGivesDefault ==
    Mapped /\ FirstOptionIsSentinel =>
        /\ mapped.attributes = [name |-> <<"Default">>, props |-> NoProps]
        /\ mapped.record.variant_attributes = <<"Default">>

\* a product whose first option is 'TITLE', followed by another option,
\* has been mapped for a variant that has both option values
C23_Witness ==
    /\ Mapped
    /\ Len(mapped.product.options) = 2
    /\ mapped.product.options[1].name = <<"TITLE">>
    /\ mapped.variant.option1 # <<>> /\ mapped.variant.option2 # <<>>
    /\ mapped.attributes.name = <<"Default">>

\* the option slots of the variant that hold a value, in order
UsedSlots ==
    LET used == {i \in 1..Len(mapped.product.options) :
                    i <= 3 /\ VariantProp(mapped.variant, i) # <<>>}
    IN  CHOOSE s \in [1..Cardinality(used) -> used] :
            \A i, j \in 1..Cardinality(used) : i < j => s[i] < s[j]

\* C24: when the first option name is not the sentinel, each of the at
\* most three option slots that has a value, in order, maps the lowercased
\* option name to the value in props and adds 'OptionName: value' to the
\* name; the fragments are joined by ' / ' and a slot without a value
\* adds nothing.
C24_NameAndPropsPerSlot ==
    Mapped /\ ~FirstOptionIsSentinel =>
        LET options == mapped.product.options
            value(k) == VariantProp(mapped.variant, UsedSlots[k])
            option(k) == options[UsedSlots[k]].name
        IN  /\ DOMAIN mapped.attributes.props
                  = {ToLowerCase(option(k)) : k \in 1..Len(UsedSlots)}
            /\ \A k \in 1..Len(UsedSlots) :
                  mapped.attributes.props[ToLowerCase(option(k))] = value(k)
            /\ mapped.attributes.name
                  = Join([k \in 1..Len(UsedSlots) |-> option(k) \o <<": ">> \o value(k)],
                         <<" / ">>)
            /\ mapped.record.variant_attributes = mapped.attributes.name

\* options Color and Size with the values 'Red' and 'M'
C24_Witness ==
    /\ Mapped
    /\ mapped.product.options = <<[name |-> <<"Color">>], [name |-> <<"Size">>]>>
    /\ mapped.variant.option1 = <<"Red">> /\ mapped.variant.option2 = <<"M">>
    /\ mapped.attributes.name = <<"Color", ": ", "Red", " / ", "Size", ": ", "M">>
    /\ mapped.attributes.props = (<<"color">> :> <<"Red">>) @@ (<<"size">> :> <<"M">>)
    /\ mapped.record.variant_attributes = mapped.attributes.name

\* C25: each of created_at, updated_at and published_at is null in the
\* record when the product's value is absent, null or cannot be parsed as
\* a date, and nothing is raised; only a value that parses yields an
\* ISO-8601 timestamp.
C25_DatesNullUnlessParseable ==
    Mapped =>
        \A field \in {"created_at", "updated_at", "published_at"} :
            LET value == mapped.product[field]
                parses == value.kind = "string" /\ value.text \in DateTexts
            IN  /\ ~parses => mapped.record[field] = Null
                /\ parses => mapped.record[field]
                                = String(<<"2021-03-04T10:06:07", ".000Z">>)

(***************************************************************************)
(* The sitemap traversal and the crawl.                                    *)
(***************************************************************************)
\* filter(url) can return a truthy value
MayAccept(url) == FilterSync(url).hook \/ Truthy(FilterSync(url).value)

\* C26: no sitemap index entry is ever output.  The result set holds only
\* map(u) for URLs u of <url><loc> entries the filter accepted; an accepted
\* <sitemap><loc> entry is enqueued and adds nothing to the result set.
C26_OnlyAcceptedLeavesAreOutput ==
    /\ [](\A o \in urls : \E raw \in site.leafLocs :
              /\ o.val = MapUrl(cleanup(raw), cfg.fetchHtml)
              /\ MayAccept(cleanup(raw)))
    /\ [](/\ idxAccepted \subseteq DOMAIN rq
          /\ \A o \in urls : o.val.userData.url \notin idxAccepted)
    /\ [][urls' # urls =>
              \E u \in DOMAIN running :
                  /\ running[u].pc = "leafAwait"
                  /\ Truthy(running[u].value)
                  /\ \E o \in urls' :
                        /\ urls' = urls \cup {o}
                        /\ o.val = MapUrl(running[u].url, cfg.fetchHtml)]_vars

\* a product-like <sitemap><loc> entry and a sitemap_products entry were
\* accepted and enqueued while the result set holds a leaf
C26_Witness ==
    /\ {ProdIdx, Sp1} \subseteq idxAccepted
    /\ {ProdIdx, Sp1} \subseteq DOMAIN rq
    /\ urls # {}

\* C27: from the return of SETUP to the end of the run the Set is changed
\* by nothing: not by the traversal, not by the crawl, not by a later hook;
\* the value persisted at the end of the run is the Set as SETUP left it.
C27_SetFrozenAfterSetup ==
    [][/\ hookCalls.SETUP > 0 => filteredSitemapUrls' = filteredSitemapUrls
       /\ pc = "persist" /\ pc' = "done" =>
             /\ Range(kv'.FILTERED) = filteredSitemapUrls
             /\ Len(kv'.FILTERED) = Cardinality(filteredSitemapUrls)]_vars

\* a run in which SETUP replaced the discovered sitemap has traversed,
\* crawled, called FINISHED and persisted
C27_Witness ==
    /\ pc = "done"
    /\ hookCalls = [SETUP |-> 1, RUN |-> 1, FINISHED |-> 1]
    /\ Secret \in filteredSitemapUrls
    /\ Root \notin filteredSitemapUrls
    /\ Range(kv.FILTERED) = filteredSitemapUrls
    /\ fetched # {}

\* the traversal is over: nothing is queued, nothing is in flight and
\* requestListFromSitemaps has returned
TraversalReturned ==
    /\ pc = "run"
    /\ rl = <<>>
    /\ Pending = {}
    /\ DOMAIN running = {}

\* C28: on a finite tree of sitemaps, with an engine that keeps taking
\* steps and fetches that succeed or use up their retries, the queue
\* drains and requestListFromSitemaps returns.
C28_TraversalTerminates == <>TraversalReturned

\* the traversal returned although the root was given up after its
\* retries
C28_WitnessGivenUp ==
    /\ TraversalReturned
    /\ rq[Root].retryCount = SitemapMaxRequestRetries
    /\ site.failures = 0

\* the traversal returned the products of the tree after a failed fetch
C28_Witness ==
    /\ TraversalReturned
    /\ {Root, Sp1} \subseteq fetched
    /\ Pages \in idxRejected
    /\ site.failures < MaxFetchFailures
    /\ Len(requestList) = 2

\* a crawl target as map(url) builds it for the input's fetchHtml
WellFormedTarget(t) ==
    IF cfg.fetchHtml
    THEN t.url = t.userData.url /\ t.userData.label = "HTML"
    ELSE t.url = t.userData.url \o <<".json">> /\ t.userData.label = "JSON"

\* the requests of the crawl in the queue; those of the traversal have no
\* label
CrawlRequests == {u \in DOMAIN rq : rq[u].label # ""}

\* the handler of request u ends in this step
Handles(u) ==
    /\ u \in DOMAIN running
    /\ running[u].pc = "handle"
    /\ u \notin DOMAIN running'

\* the values this step pushes to the dataset
Pushed == SubSeq(dataset', Len(dataset) + 1, Len(dataset'))

\* C29: with fetchHtml every target is the bare product URL labelled HTML;
\* handling an HTML request emits no record and enqueues exactly one
\* request, '<url>.json' labelled JSON; records are emitted only by the
\* handling of a JSON request.  Without fetchHtml every target is
\* '<url>.json' labelled JSON and no other request is made.
C29_HtmlThenJson ==
    /\ [](/\ \A o \in urls : WellFormedTarget(o.val)
          /\ \A i \in 1..Len(requestList) : WellFormedTarget(requestList[i])
          /\ \A u \in CrawlRequests :
                IF rq[u].label = "HTML"
                THEN cfg.fetchHtml /\ \E o \in urls : o.val.url = u
                ELSE /\ rq[u].label = "JSON"
                     /\ IF cfg.fetchHtml
                        THEN \E o \in urls :
                                /\ u = o.val.url \o <<".json">>
                                /\ o.val.url \in DOMAIN rq
                                /\ rq[o.val.url].handled
                        ELSE \E o \in urls : o.val.url = u)
    /\ [][/\ \A u \in DOMAIN running :
                Handles(u) /\ running[u].value = "HTML" =>
                    /\ dataset' = dataset
                    /\ DOMAIN rq' \ DOMAIN rq = {u \o <<".json">>}
                    /\ rq'[u \o <<".json">>] = Request("JSON")
                    /\ rq'[u].handled
          /\ (\E k \in 1..Len(Pushed) : "rec" \in DOMAIN Pushed[k]) =>
                \E u \in DOMAIN running : Handles(u) /\ running[u].value = "JSON"]_vars

\* a run with fetchHtml is over: the HTML request and the JSON request it
\* enqueued are handled and the product's record is in the dataset
C29_Witness ==
    /\ cfg.fetchHtml
    /\ pc = "done"
    /\ PA \in DOMAIN rq /\ rq[PA].label = "HTML" /\ rq[PA].handled
    /\ PA \o <<".json">> \in DOMAIN rq /\ rq[PA \o <<".json">>].label = "JSON"
    /\ rq[PA \o <<".json">>].handled
    /\ \E k \in 1..Len(dataset) : "rec" \in DOMAIN dataset[k]

\* C30: with a cap > 0 the result set never holds more than cap entries,
\* in any reachable state and under every interleaving of the handlers.
C30_NeverAboveTheCap ==
    JsGt(limit, Num(0)) => Cardinality(urls) <= limit.n

\* the result set is full while two handlers run and one of them is about
\* to resume with an accepted leaf
C30_Witness ==
    /\ JsGt(limit, Num(0))
    /\ Cardinality(urls) = limit.n
    /\ Cardinality(DOMAIN running) = 2
    /\ \E u \in DOMAIN running :
          running[u].pc = "leafAwait" /\ Truthy(running[u].value)

\* the document of request u has been fetched and parsed: its handler is
\* past the fetch
Parsed(u) == u \in DOMAIN running /\ running[u].pc # "fetch"

\* C31: with a queue that ignores a URL it already holds, every sitemap
\* URL is processed successfully at most once in a traversal, so sitemap
\* indexes that list themselves or an ancestor do not keep the traversal
\* from ending.
C31_ProcessedOnceDespiteCycles ==
    /\ [](\A u \in DOMAIN running : u \in DOMAIN rq /\ ~rq[u].handled)
    /\ [][\A u \in DOMAIN rq :
            /\ rq[u].handled => rq'[u].handled /\ u \notin DOMAIN running'
            /\ Parsed(u) => \/ u \in DOMAIN running' /\ running'[u].pc # "fetch"
                            \/ u \notin DOMAIN running' /\ rq'[u].handled]_vars
    /\ <>TraversalReturned

\* the traversal returned after both sitemaps of the cycle were fetched
\* and handled, each product of theirs in the result set once
C31_Witness ==
    /\ TraversalReturned
    /\ {Sp1, ProdIdx} \subseteq idxAccepted \cap fetched
    /\ rq[Sp1].handled /\ rq[ProdIdx].handled
    /\ {o.val.userData.url : o \in urls} = {PA, PB}
    /\ Cardinality(urls) = 2

\* the cap is a number above 0 and the result set has reached it
CapReached == JsGt(limit, Num(0)) /\ Cardinality(urls) >= limit.n

\* C32: reaching the cap does not stop the expansion of sitemaps.  In the
\* document whose leaf scan the cap ended and in every document handled
\* afterwards, every index entry the filter accepts is enqueued and later
\* fetched; the traversal ends only when the queue has drained.
C32_CapDoesNotStopExpansion ==
    /\ [](idxAccepted \subseteq DOMAIN rq)
    /\ [](pc \in {"sitemapsDrained", "run"} =>
             /\ rl = <<>> /\ Pending = {} /\ DOMAIN running = {}
             /\ idxAccepted \subseteq fetched)
    /\ [][\A u \in DOMAIN running :
            /\ (running[u].pc = "leafAwait" /\ lastEvent' = Event("leaf", "break")
                    /\ (u \notin DOMAIN running' \/ running'[u] # running[u])
                    /\ site.docs[u].indexes # <<>>)
                => /\ u \in DOMAIN running'
                   /\ running'[u].pc \in {"idxHook", "idxAwait"}
            /\ (CapReached /\ running[u].pc = "idxAwait" /\ Truthy(running[u].value)
                    /\ (u \notin DOMAIN running' \/ running'[u] # running[u]))
                => /\ running[u].url \in DOMAIN rq'
                   /\ running[u].url \in idxAccepted']_vars
    /\ \A u \in {Sp1, ProdIdx} :
          (CapReached /\ u \in idxAccepted) ~> (u \in fetched /\ rq[u].handled)

\* the cap ended the leaf scan of the root; the sitemaps listed by it and
\* by the documents after it were enqueued, fetched and handled before the
\* traversal returned
C32_Witness ==
    /\ TraversalReturned
    /\ CapReached
    /\ {o.val.userData.url : o \in urls} = {PA}
    /\ {Sp1, ProdIdx} \subseteq idxAccepted \cap fetched
    /\ rq[Sp1].handled /\ rq[ProdIdx].handled

=============================================================================
